---- MODULE Spec2Model ----
(***************************************************************************)
(* Model of src/src/pr-analyzer.js (class GitHubPRAnalyzer): the retrying  *)
(* API client with its response cache, the rate-limit wait computation and *)
(* the Copilot collaboration classifier.                                   *)
(*                                                                         *)
(* JavaScript strings are TLA+ strings (TLC evaluates Len, SubSeq and \o   *)
(* on them); toLowerCase, includes and parseInt are computed character by  *)
(* character.  JavaScript values that the code tests for truthiness are    *)
(* tagged records.                                                         *)
(***************************************************************************)
EXTENDS Integers, Sequences, FiniteSets, TLC

\* ------------------------------------------------------------------ bounds
MaxRetriesBound == 6      \* largest maxRetries argument explored
MaxTicks == 2             \* number of clock advances explored
MaxRequests == 3          \* number of direct requests per behaviour
MaxDetections == 2        \* number of classified pull requests per behaviour
MaxCommits == 2           \* longest commit list counted
MaxJobs == 2              \* longest job list of a workflow run
MaxPages == 2             \* number of pages a paginated listing may span
MaxRejections == 1       \* failed attempts of the API over one analysis
MaxWeekPRs == 7           \* most pull requests of one week of the report

\* ------------------------------------------------------- program constants
StdTTLSeconds == 72000            \* 20 * 60 * 60
BackoffUnitMs == 1000
BackoffCapMs == 30000
RateLimitBufferMs == 1000
RateLimitCapMs == 300000
RateLimitDefaultMs == 60000
DefaultMaxRetries == 3
PerPage == 100

Min(a, b) == IF a < b THEN a ELSE b
Max(a, b) == IF a > b THEN a ELSE b

RECURSIVE Pow2(_)
Pow2(n) == IF n = 0 THEN 1 ELSE 2 * Pow2(n - 1)

\* ----------------------------------------------------------- JS strings
Char(s, i) == SubSeq(s, i, i)

LowerChar(c) ==
    CASE c = "A" -> "a" [] c = "B" -> "b" [] c = "C" -> "c" [] c = "D" -> "d"
      [] c = "E" -> "e" [] c = "F" -> "f" [] c = "G" -> "g" [] c = "H" -> "h"
      [] c = "I" -> "i" [] c = "J" -> "j" [] c = "K" -> "k" [] c = "L" -> "l"
      [] c = "M" -> "m" [] c = "N" -> "n" [] c = "O" -> "o" [] c = "P" -> "p"
      [] c = "Q" -> "q" [] c = "R" -> "r" [] c = "S" -> "s" [] c = "T" -> "t"
      [] c = "U" -> "u" [] c = "V" -> "v" [] c = "W" -> "w" [] c = "X" -> "x"
      [] c = "Y" -> "y" [] c = "Z" -> "z" [] OTHER -> c

RECURSIVE ToLowerFrom(_, _)
ToLowerFrom(s, i) ==
    IF i > Len(s) THEN "" ELSE LowerChar(Char(s, i)) \o ToLowerFrom(s, i + 1)

\* String.prototype.toLowerCase
ToLowerCase(s) == ToLowerFrom(s, 1)

\* String.prototype.includes
Includes(s, sub) ==
    \E i \in 1..(Len(s) - Len(sub) + 1) : SubSeq(s, i, i + Len(sub) - 1) = sub

\* ----------------------------------------------------------- JS numbers
\* A JS number is an integer or NaN.
NaN == [nan |-> TRUE, n |-> 0]
Num(x) == [nan |-> FALSE, n |-> x]

Digits == <<"0", "1", "2", "3", "4", "5", "6", "7", "8", "9">>
IsDigit(c) == \E d \in 1..10 : Digits[d] = c
DigitVal(c) == (CHOOSE d \in 1..10 : Digits[d] = c) - 1
\* StrWhiteSpaceChar of ECMAScript, the characters parseInt skips: TAB, FF,
\* SP, LF, CR, VT, NBSP, ZWNBSP and OGHAM SPACE MARK.  Its other members
\* (U+2000 to U+200A, U+2028, U+2029, U+202F, U+205F, U+3000) cannot be
\* written in a string of a module and occur in no string used here.
WhiteSpaceChars ==
    {"\t", "\f", " ", "\n", "\r", "", " ", "﻿", " "}
IsSpace(c) == c \in WhiteSpaceChars

RECURSIVE SkipSpaces(_, _)
SkipSpaces(s, i) ==
    IF i <= Len(s) /\ IsSpace(Char(s, i)) THEN SkipSpaces(s, i + 1) ELSE i

RECURSIVE DigitsValue(_, _, _)
DigitsValue(s, i, acc) ==
    IF i <= Len(s) /\ IsDigit(Char(s, i))
    THEN DigitsValue(s, i + 1, 10 * acc + DigitVal(Char(s, i)))
    ELSE acc

\* parseInt(s) with no radix, for strings without a 0x prefix: leading white
\* space, an optional sign, then the longest run of decimal digits; NaN when
\* there is no digit.
ParseInt(s) ==
    LET i0 == SkipSpaces(s, 1)
        signed == i0 <= Len(s) /\ Char(s, i0) \in {"+", "-"}
        sign == IF signed /\ Char(s, i0) = "-" THEN -1 ELSE 1
        j == IF signed THEN i0 + 1 ELSE i0
    IN  IF j <= Len(s) /\ IsDigit(Char(s, j))
        THEN Num(sign * DigitsValue(s, j, 0))
        ELSE NaN

\* Math.min(x, c) for a JS number x and an integer c
JSMin(x, c) == IF x.nan THEN NaN ELSE Num(Min(x.n, c))

\* ------------------------------------------------------------------------
\* Dates.  A Date is the number of seconds from 2024-01-01T00:00:00Z (the
\* timestamps of the API carry no fraction of a second), or NaN for an
\* Invalid Date; a difference of two Dates in ms is 1000 times the
\* difference of these numbers.
LeapYear(y) == y % 4 = 0 /\ (y % 100 # 0 \/ y % 400 = 0)
DaysInYear(y) == IF LeapYear(y) THEN 366 ELSE 365
DaysInMonth(y, m) ==
    IF m = 2 THEN (IF LeapYear(y) THEN 29 ELSE 28)
    ELSE IF m \in {4, 6, 9, 11} THEN 30 ELSE 31

\* days from 1 January 2024 to 1 January of year y
RECURSIVE DaysBeforeYear(_)
DaysBeforeYear(y) ==
    IF y = 2024 THEN 0
    ELSE IF y > 2024 THEN DaysBeforeYear(y - 1) + DaysInYear(y - 1)
    ELSE DaysBeforeYear(y + 1) - DaysInYear(y)

RECURSIVE DaysBeforeMonth(_, _)
DaysBeforeMonth(y, m) ==
    IF m = 1 THEN 0 ELSE DaysBeforeMonth(y, m - 1) + DaysInMonth(y, m - 1)

AllDigits(s) == \A i \in 1..Len(s) : IsDigit(Char(s, i))
Field(s, a, b) == DigitsValue(SubSeq(s, a, b), 1, 0)

\* new Date(s) for s in the format of the API, YYYY-MM-DDTHH:MM:SSZ; every
\* other string used here ("abc") is an Invalid Date.  As the runtime does,
\* a day up to 31 is taken in every month and rolls over into the next
\* month, and 24:00:00 is the start of the next day.
DateParse(s) ==
    IF /\ Len(s) = 20
       /\ AllDigits(SubSeq(s, 1, 4)) /\ Char(s, 5) = "-"
       /\ AllDigits(SubSeq(s, 6, 7)) /\ Char(s, 8) = "-"
       /\ AllDigits(SubSeq(s, 9, 10)) /\ Char(s, 11) = "T"
       /\ AllDigits(SubSeq(s, 12, 13)) /\ Char(s, 14) = ":"
       /\ AllDigits(SubSeq(s, 15, 16)) /\ Char(s, 17) = ":"
       /\ AllDigits(SubSeq(s, 18, 19)) /\ Char(s, 20) = "Z"
       /\ Field(s, 6, 7) \in 1..12
       /\ Field(s, 9, 10) \in 1..31
       /\ Field(s, 12, 13) \in 0..24
       /\ Field(s, 15, 16) \in 0..59
       /\ Field(s, 18, 19) \in 0..59
       /\ Field(s, 12, 13) = 24 => Field(s, 15, 16) = 0 /\ Field(s, 18, 19) = 0
    THEN Num(((DaysBeforeYear(Field(s, 1, 4))
                 + DaysBeforeMonth(Field(s, 1, 4), Field(s, 6, 7))
                 + Field(s, 9, 10) - 1) * 24 + Field(s, 12, 13)) * 3600
             + Field(s, 15, 16) * 60 + Field(s, 18, 19))
    ELSE NaN

\* Math.ceil(a / b) for integers a and b > 0
CeilDiv(a, b) == -((-a) \div b)

\* the year holding day d, counted from 1 January of year y, and the day
\* within it
RECURSIVE YearOfDay(_, _)
YearOfDay(d, y) ==
    IF d < 0 THEN YearOfDay(d + DaysInYear(y - 1), y - 1)
    ELSE IF d >= DaysInYear(y) THEN YearOfDay(d - DaysInYear(y), y + 1)
    ELSE [year |-> y, day |-> d]

RECURSIVE MonthOfDay(_, _, _)
MonthOfDay(y, d, m) ==
    IF d >= DaysInMonth(y, m) THEN MonthOfDay(y, d - DaysInMonth(y, m), m + 1)
    ELSE [month |-> m, day |-> d + 1]

\* String(n).padStart(w, '0')
RECURSIVE PadStart(_, _)
PadStart(str, w) == IF Len(str) >= w THEN str ELSE PadStart("0" \o str, w)

\* Date.prototype.toISOString, for years 0 to 9999
ToISOString(date) ==
    LET yd == YearOfDay(date \div 86400, 2024)
        md == MonthOfDay(yd.year, yd.day, 1)
        secs == date % 86400
    IN  PadStart(ToString(yd.year), 4) \o "-" \o PadStart(ToString(md.month), 2)
        \o "-" \o PadStart(ToString(md.day), 2)
        \o "T" \o PadStart(ToString(secs \div 3600), 2)
        \o ":" \o PadStart(ToString((secs % 3600) \div 60), 2)
        \o ":" \o PadStart(ToString(secs % 60), 2) \o ".000Z"

\* ------------------------------------------------------------ JS values
\* A response body (response.data).  items is the list of an array body; an
\* item carries the login of a review (user.login) and the message of a
\* commit (commit.message); "" is a missing (undefined, null or empty) field.
Item(login, message) ==
    [login |-> login, message |-> message, authorName |-> "", committerName |-> ""]
Review(login) == Item(login, "")
Commit(message) == Item("", message)

JUndefined == [kind |-> "undefined", num |-> 0, str |-> "", items |-> <<>>]
JNull == [kind |-> "null", num |-> 0, str |-> "", items |-> <<>>]
JNum(x) == [kind |-> "number", num |-> x, str |-> "", items |-> <<>>]
JStr(s) == [kind |-> "string", num |-> 0, str |-> s, items |-> <<>>]
JArr(xs) == [kind |-> "array", num |-> 0, str |-> "", items |-> xs]
\* the body { jobs: xs } of a job listing
JObj(xs) == [kind |-> "object", num |-> 0, str |-> "", items |-> xs]

\* ToBoolean: what `if (v)` and `v || dflt` test
Truthy(v) ==
    CASE v.kind = "undefined" -> FALSE
      [] v.kind = "null" -> FALSE
      [] v.kind = "number" -> v.num # 0
      [] v.kind = "string" -> v.str # ""
      [] OTHER -> TRUE

\* --------------------------------------------------------------- errors
\* What the request thunk rejects with.  response = FALSE is a network
\* failure (error.response undefined).  A header that is absent is "" (the
\* code reads headers only through `h || '0'` and `if (h)`, which treat an
\* absent and an empty header alike).
NetworkError ==
    [response |-> FALSE, status |-> 0, reset |-> "", retryAfter |-> ""]
HttpError(s) ==
    [response |-> TRUE, status |-> s, reset |-> "", retryAfter |-> ""]
RateLimited(reset, retryAfter) ==
    [response |-> TRUE, status |-> 429, reset |-> reset, retryAfter |-> retryAfter]
NoError == [response |-> FALSE, status |-> -1, reset |-> "", retryAfter |-> ""]
\* a TypeError of the runtime: an error without a response
TypeError ==
    [response |-> FALSE, status |-> 0, reset |-> "", retryAfter |-> "",
     name |-> "TypeError"]

\* _shouldRetryError(error)
ShouldRetryErrorAll4xx(error) ==
    IF ~error.response THEN TRUE ELSE error.status >= 400

ShouldRetryError(error) ==
    IF ~error.response THEN TRUE
    ELSE IF error.status = 429 THEN TRUE
    ELSE IF error.status >= 500 THEN TRUE
    ELSE IF error.status = 408 THEN TRUE
    ELSE IF error.status = 409 THEN TRUE
    ELSE IF error.status >= 400 /\ error.status < 500 THEN FALSE
    ELSE FALSE

\* _handleRateLimit(error, context) when Date.now() = nowMs
HandleRateLimitNoCap(error, nowMs) ==
    LET resetTimestamp == ParseInt(IF error.reset # "" THEN error.reset ELSE "0")
        now == nowMs \div 1000
    IN  IF ~resetTimestamp.nan /\ resetTimestamp.n > 0
        THEN Num(Max(0, (resetTimestamp.n - now) * 1000) + RateLimitBufferMs)
        ELSE IF error.retryAfter # ""
        THEN LET p == ParseInt(error.retryAfter)
             IN  IF p.nan THEN NaN ELSE Num(p.n * 1000)
        ELSE Num(RateLimitDefaultMs)

HandleRateLimit(error, nowMs) ==
    LET resetTimestamp == ParseInt(IF error.reset # "" THEN error.reset ELSE "0")
        now == nowMs \div 1000
    IN  IF ~resetTimestamp.nan /\ resetTimestamp.n > 0
        THEN Num(Min(Max(0, (resetTimestamp.n - now) * 1000) + RateLimitBufferMs,
                     RateLimitCapMs))
        ELSE IF error.retryAfter # ""
        THEN LET p == ParseInt(error.retryAfter)
             IN  JSMin(IF p.nan THEN NaN ELSE Num(p.n * 1000), RateLimitCapMs)
        ELSE Num(RateLimitDefaultMs)

\* baseDelay = Math.min(1000 * Math.pow(2, attempt), 30000)
BaseDelayUncapped(a) == BackoffUnitMs * Pow2(a)

BaseDelay(a) == Min(BackoffUnitMs * Pow2(a), BackoffCapMs)

\* jitter = Math.random() * 0.1 * baseDelay, a value in [0, 0.1 * baseDelay):
\* the least, a middle and the greatest whole number of milliseconds
Jitters(base) == {0, base \div 20, base \div 10 - 1}

\* ------------------------------------------------------- response cache
\* new NodeCache({ stdTTL: 20 * 60 * 60 }): an entry is the stored value and
\* the time t (ms) at which it expires.
TTLMs == StdTTLSeconds * 1000

NoEntry == [present |-> FALSE, v |-> JUndefined, t |-> 0]

\* the entry is live at nowMs (node-cache expires an entry once t < now)
Live(entry, nowMs) == entry.present /\ ~(entry.t < nowMs)

\* cache.get(key): the value of a live entry, undefined otherwise
CacheGet(c, key, nowMs) ==
    IF Live(c[key], nowMs) THEN c[key].v ELSE JUndefined

\* the cache after cache.get(key): an expired entry is deleted, a live one
\* is left as it is
CacheAfterGetTouch(c, key, nowMs) ==
    IF c[key].present
    THEN [c EXCEPT ![key] = IF Live(c[key], nowMs)
                             THEN [@ EXCEPT !.t = nowMs + TTLMs] ELSE NoEntry]
    ELSE c

CacheAfterGet(c, key, nowMs) ==
    IF c[key].present /\ ~Live(c[key], nowMs)
    THEN [c EXCEPT ![key] = NoEntry]
    ELSE c

\* the cache after a set that adds the items of a list to the list present
CacheSetMerged(c, key, value, nowMs) ==
    [c EXCEPT ![key] =
        [present |-> TRUE,
         v |-> IF c[key].present /\ c[key].v.kind = "array" /\ value.kind = "array"
               THEN JArr(c[key].v.items \o value.items) ELSE value,
         t |-> nowMs + TTLMs]]

\* the cache after cache.set(key, value)
CacheSet(c, key, value, nowMs) ==
    [c EXCEPT ![key] = [present |-> TRUE, v |-> value, t |-> nowMs + TTLMs]]

\* ---------------------------------------------------------------- state
VARIABLES
    cache,        \* this.cache: cache key -> entry
    clock,        \* Date.now() in ms
    ticks,        \* number of clock advances so far
    nreq,         \* number of requests started by a direct caller
    pc,           \* position of _makeApiRequestWithRetry:
                  \*   "idle", "awaiting" (await requestFn()), "ratelimited"
                  \*   (await this._handleRateLimit()), "sleeping"
                  \*   (await this._sleep()), "returned", "thrown"
    req,          \* its arguments: who called, cacheKey, useCache, maxRetries
    attempt,      \* loop variable attempt
    lastError,    \* local lastError
    result,       \* the value returned to the caller
    thrown,       \* the error raised to the caller
    sleepMs,      \* the delay computed last, the argument of this._sleep
    sleepAt,      \* Date.now() when that delay was computed
    calls,        \* invocations of requestFn in this request
    sleeps,       \* calls of this._sleep in this request
    fails,        \* rejections of requestFn in this request
    terminalFails,\* those with a status outside the retryable ones
    rejection,    \* the error requestFn last rejected with
    lastResponse, \* the response requestFn last resolved with
    lookup,       \* the last cache.get: key, value found, time
    stored,       \* per key, the last cache.set: value and time
    served,       \* per key, the bodies of successful attempts under it
    fn,           \* the function applied to arg ("" before the call)
    arg,          \* the arguments of a single function call
    out,          \* <<value>> once the call has returned
    dpc,          \* position of detectCopilotCollaboration: "idle",
                  \*   "reviews" (await getPRReviews), "commits" (await
                  \*   getPRCommits), "done"
    pr,           \* its argument
    category,     \* the value it returned
    fetches,      \* getPRReviews and getPRCommits calls it has issued
    reviewsGot,   \* the list getPRReviews returned to it
    commitsGot,   \* the list getPRCommits returned to it
    ndet,         \* number of detections started
    listing,      \* the frame of a paginated fetcher: position, page, items
    an,           \* the frame of analyzePullRequests: position and locals
    weeklyData,   \* its weeklyData: week key -> bucket
    totals        \* its counters and sets over all weeks

rvars == <<cache, pc, req, attempt, lastError, result, thrown, sleepMs, sleepAt,
           calls, sleeps, fails, terminalFails, rejection, lastResponse,
           lookup, stored, served>>

vars == <<cache, clock, ticks, nreq, pc, req, attempt, lastError, result,
          thrown, sleepMs, sleepAt, calls, sleeps, fails, terminalFails,
          rejection, lastResponse, lookup, stored, served, fn, arg, out,
          dpc, pr, category, fetches, reviewsGot, commitsGot, ndet,
          listing, an, weeklyData, totals>>

\* the state of the retrying client and its cache
cvars == <<cache, clock, ticks, nreq, pc, req, attempt, lastError, result,
           thrown, sleepMs, sleepAt, calls, sleeps, fails, terminalFails,
           rejection, lastResponse, lookup, stored, served>>
fvars == <<fn, arg, out>>
dvars == <<dpc, pr, category, fetches, reviewsGot, commitsGot, ndet>>
avars == <<listing, an, weeklyData, totals>>

\* ---------------------------------------------------------------- inputs
\* cache keys; "" is a null (or empty) cacheKey
RequestKeys == {"reviews_o/r_1", "commits_o/r_1"}

\* pull requests handed to detectCopilotCollaboration.  user says that
\* pr.user is there, author is pr.user.login and assignees the logins of
\* pr.assignees; "" is a missing login (a login of the API is never empty),
\* <<>> also a missing assignees array.
PullRequestIn(repo, number, author, assignees, title, body, createdAt) ==
    [number |-> number, repo |-> repo, user |-> TRUE, author |-> author,
     assignees |-> assignees, title |-> title, body |-> body,
     created_at |-> createdAt]

\* the pull request p without pr.user
WithoutUser(p) == [p EXCEPT !.user = FALSE, !.author = ""]

PullRequest(number, author, assignees, title, body) ==
    PullRequestIn("o/r", number, author, assignees, title, body,
                  "2024-01-10T12:00:00Z")

NoPR == PullRequest(0, "", <<>>, "", "")

PRNumbers == {1, 2}
PRAuthors == {"octocat", "Copilot", ""}
PRAssignees == {<<>>, <<"octocat", "COPILOT">>, <<"">>}
PRTexts ==
    {<<"Test PR", "Test body">>,
     <<"Fix parser", "Used GitHub Copilot suggestions">>,
     <<"AI-assisted refactoring", "">>}

PullRequests ==
    {PullRequest(n, a, as, t[1], t[2]) :
        n \in PRNumbers, a \in PRAuthors, as \in PRAssignees, t \in PRTexts}

\* cacheKey of getPRReviews and of getPRCommits
ReviewsKey(repo, prNumber) == "reviews_" \o repo \o "_" \o ToString(prNumber)
CommitsKey(repo, prNumber) == "commits_" \o repo \o "_" \o ToString(prNumber)

FilesKey(repo, prNumber) == "files_" \o repo \o "_" \o ToString(prNumber)
JobsKey(repoFullName, runId) ==
    "workflow_jobs_" \o repoFullName \o "_" \o ToString(runId)
PullsKey(repo, since, page) ==
    "pulls_" \o repo \o "_" \o ToISOString(since) \o "_" \o ToString(page)

AllKeys ==
    RequestKeys
    \cup {ReviewsKey(p.repo, p.number) : p \in PullRequests}
    \cup {CommitsKey(p.repo, p.number) : p \in PullRequests}

\* response bodies: lists, and the falsy bodies "" and null
RequestBodies == {JArr(<<>>), JArr(<<Review("octocat")>>), JStr(""), JNull}

\* x-ratelimit-reset and retry-after headers of a 429 response
RateLimitHeaders == {<<"", "">>, <<"", "30">>, <<"36060", "30">>, <<"36600", "">>}

RequestErrors ==
    {NetworkError}
    \cup {HttpError(s) : s \in {304, 401, 404, 408, 409, 500, 503}}
    \cup {RateLimited(h[1], h[2]) : h \in RateLimitHeaders}

\* amounts by which the clock advances between two steps
TickSteps == {TTLMs \div 2, TTLMs \div 2 + 1000}

\* the statuses the retry policy names, stated apart from _shouldRetryError
RetryableFailure(e) ==
    ~e.response \/ e.status \in {429, 408, 409} \/ e.status >= 500

NoLookup == [key |-> "", value |-> JUndefined, at |-> 0]
NoStore == [present |-> FALSE, v |-> JUndefined, at |-> 0]
NoRequest == [who |-> "none", cacheKey |-> "", useCache |-> FALSE, maxRetries |-> 0]

\* the client after construction, its cache ranging over keys
InitClientOver(keys) ==
    /\ cache = [k \in keys |-> NoEntry]
    /\ clock = 0
    /\ ticks = 0
    /\ nreq = 0
    /\ pc = "idle"
    /\ req = NoRequest
    /\ attempt = 0
    /\ lastError = NoError
    /\ result = JUndefined
    /\ thrown = NoError
    /\ sleepMs = Num(0)
    /\ sleepAt = 0
    /\ calls = 0
    /\ sleeps = 0
    /\ fails = 0
    /\ terminalFails = 0
    /\ rejection = NoError
    /\ lastResponse = [data |-> JUndefined]
    /\ lookup = NoLookup
    /\ stored = [k \in keys |-> NoStore]
    /\ served = [k \in keys |-> {}]

InitClient == InitClientOver(AllKeys)

InitNoCall == fn = "" /\ arg = <<>> /\ out = <<>>

InitNoDetection ==
    /\ dpc = "idle"
    /\ pr = NoPR
    /\ category = ""
    /\ fetches = 0
    /\ reviewsGot = <<>>
    /\ commitsGot = <<>>
    /\ ndet = 0

\* no paginated fetch and no analysis is in progress
NoListing ==
    [pc |-> "idle", fetcher |-> "", repo |-> "", since |-> 0, page |-> 0,
     items |-> <<>>, error |-> NoError, failure |-> NoError,
     calls |-> 0, sleeps |-> 0, fails |-> 0]
\* the configuration loadSkippedOrganizations returns: the fully skipped
\* organizations and, per partially skipped organization, the repositories
\* to include
SkipConfig(fullySkipped, partiallySkipped) ==
    [fullySkipped |-> fullySkipped, partiallySkipped |-> partiallySkipped]
NoOrgs == [o \in {} |-> {}]
NoUsage == [totalMinutes |-> Num(0), totalRuns |-> 0, runDetails |-> <<>>]
NoReport == [present |-> FALSE]

NoAnalysis ==
    [pc |-> "idle", awaiting |-> FALSE, ci |-> FALSE, repo |-> "", since |-> 0,
     skippedOrgs |-> SkipConfig({}, NoOrgs), repositories |-> <<>>, ri |-> 0,
     pulls |-> <<>>, pi |-> 0, weekKey |-> "", copilotType |-> "",
     copilotAssisted |-> FALSE, commitCounts |-> <<>>, lineChanges |-> <<>>,
     runs |-> <<>>, runIdx |-> 0, usage |-> NoUsage, error |-> NoError,
     report |-> NoReport, rejections |-> 0]
NoTotals ==
    [totalPRs |-> 0, totalCopilotPRs |-> 0, totalCopilotReviewPRs |-> 0,
     totalCopilotAgentPRs |-> 0, totalDependabotPRs |-> 0,
     totalRepositories |-> 0, allCollaborators |-> {}, repositoryNames |-> {}]

InitNoAnalysis ==
    /\ listing = NoListing
    /\ an = NoAnalysis
    /\ weeklyData = <<>>
    /\ totals = NoTotals

Init == InitClient /\ InitNoCall /\ InitNoDetection /\ InitNoAnalysis

\* -------------------------------------------- _makeApiRequestWithRetry
\* The call, up to the first `await requestFn()`: the cache check, and on a
\* miss the first invocation of the thunk.
BeginRequest(who, cacheKey, useCache, maxRetries) ==
    /\ req' = [who |-> who, cacheKey |-> cacheKey, useCache |-> useCache,
               maxRetries |-> maxRetries]
    /\ attempt' = 0
    /\ lastError' = NoError
    /\ thrown' = NoError
    /\ sleeps' = 0
    /\ fails' = 0
    /\ terminalFails' = 0
    /\ sleepMs' = Num(0)
    /\ sleepAt' = 0
    /\ rejection' = NoError
    /\ lastResponse' = [data |-> JUndefined]
    /\ UNCHANGED <<stored, served>>
    /\ IF useCache /\ cacheKey # ""
       THEN LET cachedData == CacheGet(cache, cacheKey, clock)
            IN  /\ cache' = CacheAfterGet(cache, cacheKey, clock)
                /\ lookup' = [key |-> cacheKey, value |-> cachedData, at |-> clock]
                /\ IF Truthy(cachedData)
                   THEN pc' = "returned" /\ calls' = 0 /\ result' = cachedData
                   ELSE pc' = "awaiting" /\ calls' = 1 /\ result' = JUndefined
       ELSE /\ cache' = cache
            /\ lookup' = NoLookup
            /\ pc' = "awaiting" /\ calls' = 1 /\ result' = JUndefined

\* the key under which a successful response is stored
StoreKeyOther(r) == IF r.cacheKey = "reviews_o/r_1" THEN "commits_o/r_1" ELSE r.cacheKey

StoreKey(r) == r.cacheKey

\* requestFn() resolves with a response whose data is body: store and return
ThunkResolvesDropsBody(body) ==
    /\ pc = "awaiting"
    /\ lastResponse' = [data |-> body]
    /\ IF req.useCache /\ req.cacheKey # ""
       THEN /\ cache' = CacheSet(cache, StoreKey(req), body, clock)
            /\ stored' = [stored EXCEPT ![req.cacheKey] =
                             [present |-> TRUE, v |-> body, at |-> clock]]
       ELSE UNCHANGED <<cache, stored>>
    /\ IF req.cacheKey # ""
       THEN served' = [served EXCEPT ![req.cacheKey] = @ \cup {body}]
       ELSE served' = served
    /\ result' = JUndefined
    /\ pc' = "returned"
    /\ attempt' = 0
    /\ lastError' = NoError
    /\ UNCHANGED <<req, thrown, sleepMs, sleepAt, calls,
                   sleeps, fails, terminalFails, rejection, lookup>>

ThunkResolves(body) ==
    /\ pc = "awaiting"
    /\ lastResponse' = [data |-> body]
    /\ IF req.useCache /\ req.cacheKey # ""
       THEN /\ cache' = CacheSet(cache, StoreKey(req), body, clock)
            /\ stored' = [stored EXCEPT ![req.cacheKey] =
                             [present |-> TRUE, v |-> body, at |-> clock]]
       ELSE UNCHANGED <<cache, stored>>
    /\ IF req.cacheKey # ""
       THEN served' = [served EXCEPT ![req.cacheKey] = @ \cup {body}]
       ELSE served' = served
    /\ result' = body
    /\ pc' = "returned"
    /\ attempt' = 0
    /\ lastError' = NoError
    /\ UNCHANGED <<req, thrown, sleepMs, sleepAt, calls,
                   sleeps, fails, terminalFails, rejection, lookup>>

\* the delay slept after the failed attempt a with error e
RetryDelays(e, a, nowMs) ==
    IF e.response /\ e.status = 429
    THEN {HandleRateLimit(e, nowMs)}
    ELSE {Num(BaseDelay(a) + j) : j \in Jitters(BaseDelay(a))}

\* requestFn() rejects with error: raise, or compute the delay and sleep,
\* the delay being computed and slept after the last attempt too
ThunkRejectsSleepsAfterLast(error) ==
    /\ pc = "awaiting"
    /\ lastError' = error
    /\ rejection' = error
    /\ fails' = fails + 1
    /\ terminalFails' = IF RetryableFailure(error) THEN terminalFails
                        ELSE terminalFails + 1
    /\ IF ~ShouldRetryError(error)
       THEN /\ pc' = "thrown"
            /\ thrown' = error
            /\ UNCHANGED <<sleepMs, sleepAt, sleeps>>
       ELSE /\ \E d \in RetryDelays(error, attempt, clock) : sleepMs' = d
            /\ sleepAt' = clock
            /\ IF attempt = req.maxRetries
               THEN pc' = "thrown" /\ thrown' = error /\ sleeps' = sleeps + 1
               ELSE IF error.response /\ error.status = 429
               THEN pc' = "ratelimited" /\ UNCHANGED <<sleeps, thrown>>
               ELSE pc' = "sleeping" /\ thrown' = thrown /\ sleeps' = sleeps + 1
    /\ UNCHANGED <<cache, req, attempt, result, calls, lastResponse, lookup,
                   stored, served>>

ThunkRejects(error) ==
    /\ pc = "awaiting"
    /\ lastError' = error
    /\ rejection' = error
    /\ fails' = fails + 1
    /\ terminalFails' = IF RetryableFailure(error) THEN terminalFails
                        ELSE terminalFails + 1
    /\ IF attempt = req.maxRetries \/ ~ShouldRetryError(error)
       THEN /\ pc' = "thrown"
            /\ thrown' = error
            /\ UNCHANGED <<sleepMs, sleepAt, sleeps>>
       ELSE /\ \E d \in RetryDelays(error, attempt, clock) : sleepMs' = d
            /\ sleepAt' = clock
            /\ thrown' = thrown
            /\ IF error.response /\ error.status = 429
               THEN pc' = "ratelimited" /\ sleeps' = sleeps
               ELSE pc' = "sleeping" /\ sleeps' = sleeps + 1
    /\ UNCHANGED <<cache, req, attempt, result, calls, lastResponse, lookup,
                   stored, served>>

\* the loop resumes from `await this._handleRateLimit(error, context)`: the
\* wait is logged and _sleep(waitTime) is called
RateLimitHandled ==
    /\ pc = "ratelimited"
    /\ pc' = "sleeping"
    /\ sleeps' = sleeps + 1
    /\ UNCHANGED <<cache, req, attempt, lastError, result, thrown, sleepMs,
                   sleepAt, calls, fails, terminalFails, rejection,
                   lastResponse, lookup, stored, served>>

\* the sleep is over: attempt++ and the thunk is invoked again
SleepDone ==
    /\ pc = "sleeping"
    /\ attempt' = attempt + 1
    /\ calls' = calls + 1
    /\ pc' = "awaiting"
    /\ sleepMs' = Num(0)
    /\ sleepAt' = 0
    /\ UNCHANGED <<cache, req, lastError, result, thrown,
                   sleeps, fails, terminalFails, rejection, lastResponse,
                   lookup, stored, served>>

\* ------------------------------------------------------ direct requests
\* a caller invokes _makeApiRequestWithRetry(requestFn, context, maxRetries,
\* useCache, cacheKey)
Request(cacheKey, useCache, maxRetries) ==
    /\ pc = "idle"
    /\ BeginRequest("direct", cacheKey, useCache, maxRetries)
    /\ UNCHANGED <<clock, ticks>>
    /\ UNCHANGED <<fvars, dvars, avars>>

\* the call is over: its frame and what is recorded about it are dropped
ReleaseRequest ==
    /\ pc' = "idle"
    /\ req' = NoRequest
    /\ attempt' = 0
    /\ lastError' = NoError
    /\ result' = JUndefined
    /\ thrown' = NoError
    /\ calls' = 0
    /\ sleeps' = 0
    /\ fails' = 0
    /\ terminalFails' = 0
    /\ rejection' = NoError
    /\ lastResponse' = [data |-> JUndefined]
    /\ lookup' = NoLookup
    /\ sleepMs' = Num(0)
    /\ sleepAt' = 0
    /\ UNCHANGED <<cache, stored, served>>

\* the caller receives the value or the error
Return ==
    /\ pc \in {"returned", "thrown"}
    /\ req.who = "direct"
    /\ ReleaseRequest
    /\ UNCHANGED <<clock, ticks, nreq>>
    /\ UNCHANGED <<fvars, dvars, avars>>

\* time passes (also while a request or a sleep is pending)
Tick(d) ==
    /\ ticks < MaxTicks
    /\ pc \in {"idle", "awaiting", "ratelimited", "sleeping"}
    /\ ticks' = ticks + 1
    /\ clock' = clock + d
    /\ UNCHANGED rvars
    /\ UNCHANGED nreq
    /\ UNCHANGED <<fvars, dvars, avars>>

\* ------------------------------------------------------------------------
\* The retry loop: requests with every maxRetries, every kind of failure, with
\* and without a cache key.
RetryArgs == {<<"reviews_o/r_1", TRUE>>, <<"", TRUE>>}
RetryBodies == {JArr(<<Review("octocat")>>), JStr("")}

Issue ==
    /\ \E a \in RetryArgs, m \in 0..MaxRetriesBound : Request(a[1], a[2], m)
    /\ UNCHANGED nreq
Resolve ==
    /\ \E body \in RetryBodies : ThunkResolves(body)
    /\ UNCHANGED <<clock, ticks, nreq>>
    /\ UNCHANGED <<fvars, dvars, avars>>
Reject ==
    /\ \E error \in RequestErrors : ThunkRejects(error)
    /\ UNCHANGED <<clock, ticks, nreq>>
    /\ UNCHANGED <<fvars, dvars, avars>>
Resume == SleepDone /\ UNCHANGED <<clock, ticks, nreq>> /\ UNCHANGED <<fvars, dvars, avars>>
Handled ==
    /\ RateLimitHandled
    /\ UNCHANGED <<clock, ticks, nreq>>
    /\ UNCHANGED <<fvars, dvars, avars>>
Advance == \E d \in TickSteps : Tick(d)

Next == Issue \/ Resolve \/ Reject \/ Handled \/ Resume \/ Return \/ Advance

Spec == Init /\ [][Next]_vars

\* ------------------------------------------------------------------------
\* The cache: a bounded number of requests under two keys, with and without
\* caching, every body, one terminal and one retryable failure.
CacheArgs ==
    {<<k, TRUE>> : k \in RequestKeys} \cup {<<"reviews_o/r_1", FALSE>>, <<"", TRUE>>}
CacheErrors == {HttpError(404), HttpError(500)}

IssueCached ==
    /\ nreq < MaxRequests
    /\ nreq' = nreq + 1
    /\ \E a \in CacheArgs, m \in {0, 1} : Request(a[1], a[2], m)
ResolveCached ==
    /\ \E body \in RequestBodies : ThunkResolves(body)
    /\ UNCHANGED <<clock, ticks, nreq>>
    /\ UNCHANGED <<fvars, dvars, avars>>
RejectCached ==
    /\ \E error \in CacheErrors : ThunkRejects(error)
    /\ UNCHANGED <<clock, ticks, nreq>>
    /\ UNCHANGED <<fvars, dvars, avars>>

NextCache ==
    IssueCached \/ ResolveCached \/ RejectCached \/ Resume \/ Return \/ Advance

SpecCache == Init /\ [][NextCache]_vars

\* ------------------------------------------------------------------------
\* Two fetches in flight over the one cache.  The event loop runs one call
\* of _makeApiRequestWithRetry at a time, from an await to the next; the
\* locals of the call that is not running are kept in arg.
Frame ==
    [pc |-> pc, req |-> req, attempt |-> attempt, lastError |-> lastError,
     result |-> result, thrown |-> thrown, sleepMs |-> sleepMs,
     sleepAt |-> sleepAt, calls |-> calls, sleeps |-> sleeps, fails |-> fails,
     terminalFails |-> terminalFails, rejection |-> rejection,
     lastResponse |-> lastResponse, lookup |-> lookup]

IdleFrame ==
    [pc |-> "idle", req |-> NoRequest, attempt |-> 0, lastError |-> NoError,
     result |-> JUndefined, thrown |-> NoError, sleepMs |-> Num(0),
     sleepAt |-> 0, calls |-> 0, sleeps |-> 0, fails |-> 0,
     terminalFails |-> 0, rejection |-> NoError,
     lastResponse |-> [data |-> JUndefined], lookup |-> NoLookup]

ConcurrentBodies == {JArr(<<Review("octocat")>>), JArr(<<Review("Copilot")>>)}

InitConcurrent ==
    /\ InitClient
    /\ fn = ""
    /\ arg = <<IdleFrame>>
    /\ out = <<>>
    /\ InitNoDetection
    /\ InitNoAnalysis

\* the event loop turns to the other call
Switch ==
    /\ arg' = <<Frame>>
    /\ pc' = arg[1].pc
    /\ req' = arg[1].req
    /\ attempt' = arg[1].attempt
    /\ lastError' = arg[1].lastError
    /\ result' = arg[1].result
    /\ thrown' = arg[1].thrown
    /\ sleepMs' = arg[1].sleepMs
    /\ sleepAt' = arg[1].sleepAt
    /\ calls' = arg[1].calls
    /\ sleeps' = arg[1].sleeps
    /\ fails' = arg[1].fails
    /\ terminalFails' = arg[1].terminalFails
    /\ rejection' = arg[1].rejection
    /\ lastResponse' = arg[1].lastResponse
    /\ lookup' = arg[1].lookup
    /\ UNCHANGED <<cache, stored, served, clock, ticks, nreq, fn, out>>
    /\ UNCHANGED <<dvars, avars>>

IssueConcurrent ==
    /\ nreq < MaxRequests
    /\ nreq' = nreq + 1
    /\ \E k \in RequestKeys : Request(k, TRUE, 1)

ResolveConcurrent ==
    /\ \E body \in ConcurrentBodies : ThunkResolves(body)
    /\ UNCHANGED <<clock, ticks, nreq>>
    /\ UNCHANGED <<fvars, dvars, avars>>

ConcurrentErrors == {HttpError(500), RateLimited("", "30")}

RejectConcurrent ==
    /\ \E error \in ConcurrentErrors : ThunkRejects(error)
    /\ UNCHANGED <<clock, ticks, nreq>>
    /\ UNCHANGED <<fvars, dvars, avars>>

NextConcurrent ==
    \/ IssueConcurrent \/ ResolveConcurrent \/ RejectConcurrent \/ Handled
    \/ Resume \/ Return \/ Switch

SpecConcurrent == InitConcurrent /\ [][NextConcurrent]_vars

\* ------------------------------------------------------------------------
\* _handleRateLimit as a function of the response headers and of Date.now().
RateLimitResets == {"", "0", "abc", "99000", "100060", "100299", "100600", "\r100060"}
RateLimitRetryAfters == {"", "0", "30", "300", "600", "-5", "abc", "\n30"}
RateLimitNows == {100000000, 100000999, 100300000}
RateLimitErrors ==
    {NetworkError}
    \cup {RateLimited(r, ra) : r \in RateLimitResets, ra \in RateLimitRetryAfters}

InitRateLimit ==
    /\ InitClient
    /\ fn = ""
    /\ arg \in [error : RateLimitErrors, now : RateLimitNows]
    /\ out = <<>>
    /\ InitNoDetection
    /\ InitNoAnalysis

CallHandleRateLimit ==
    /\ fn = ""
    /\ fn' = "_handleRateLimit"
    /\ out' = <<HandleRateLimit(arg.error, arg.now)>>
    /\ UNCHANGED arg
    /\ UNCHANGED <<cvars, dvars, avars>>

NextRateLimit == CallHandleRateLimit

SpecRateLimit == InitRateLimit /\ [][NextRateLimit]_vars

\* ------------------------------------------------------------------------
\* getRateLimitInfo(): one request through the retrying client under the
\* cache key 'rate_limit_info', and the times derived from the response.

\* the body { rate: { remaining, limit, reset } } of GET /rate_limit
JRate(remaining, limit, reset) ==
    [kind |-> "object", num |-> 0, str |-> "",
     items |-> <<[remaining |-> remaining, limit |-> limit, reset |-> reset]>>]

\* what getRateLimitInfo returns for the response at Date.now() = nowMs; a
\* response without a rate raises a TypeError, wrapped by the catch
RateLimitInfo(response, nowMs) ==
    IF response.kind # "object" \/ response.items = <<>>
    THEN [raised |-> TRUE, remaining |-> 0, limit |-> 0, resetTimestamp |-> 0,
          resetDatetime |-> "", timeUntilResetMinutes |-> 0,
          timeUntilResetSeconds |-> 0, timeUntilResetTotalSeconds |-> 0]
    ELSE LET rate == response.items[1]
             resetTimestamp == rate.reset
             timeUntilReset == Max(0, resetTimestamp * 1000 - nowMs)
             totalSeconds == timeUntilReset \div 1000
         IN  [raised |-> FALSE, remaining |-> rate.remaining,
              limit |-> rate.limit, resetTimestamp |-> resetTimestamp,
              resetDatetime |-> ToISOString(resetTimestamp),
              timeUntilResetMinutes |-> totalSeconds \div 60,
              timeUntilResetSeconds |-> totalSeconds % 60,
              timeUntilResetTotalSeconds |-> totalSeconds]

RateInfoKey == "rate_limit_info"
\* the answers of /rate_limit as the quota is used up, and a null body
RateInfoBodies == {JRate(5000, 5000, 3600), JRate(4200, 5000, 3600), JNull}
RateInfoErrors == {HttpError(401), HttpError(500)}
RateInfoTicks == {90000, TTLMs + 1000}

InitRateInfo ==
    /\ InitClientOver({RateInfoKey})
    /\ InitNoCall
    /\ InitNoDetection
    /\ InitNoAnalysis

\* the call, up to the await of the request
GetRateLimitInfo ==
    /\ pc = "idle"
    /\ nreq < MaxRequests
    /\ nreq' = nreq + 1
    /\ BeginRequest("getRateLimitInfo", RateInfoKey, TRUE, DefaultMaxRetries)
    /\ UNCHANGED <<clock, ticks>>
    /\ UNCHANGED <<fvars, dvars, avars>>

\* the request is over: the caller receives the info, or the wrapped error.
\* out keeps, per call, what was returned, the number of requests sent to
\* the endpoint and the response received, if any
RateLimitInfoReturned ==
    /\ req.who = "getRateLimitInfo"
    /\ pc \in {"returned", "thrown"}
    /\ out' = Append(out,
                     [info |-> IF pc = "thrown"
                               THEN RateLimitInfo(JUndefined, clock)
                               ELSE RateLimitInfo(result, clock),
                      calls |-> calls,
                      response |-> lastResponse.data,
                      at |-> clock])
    /\ fn' = "getRateLimitInfo"
    /\ ReleaseRequest
    /\ UNCHANGED <<clock, ticks, nreq, arg>>
    /\ UNCHANGED <<dvars, avars>>

ResolveRateInfo ==
    /\ req.who = "getRateLimitInfo"
    /\ \E body \in RateInfoBodies : ThunkResolves(body)
    /\ UNCHANGED <<clock, ticks, nreq>>
    /\ UNCHANGED <<fvars, dvars, avars>>

RejectRateInfo ==
    /\ req.who = "getRateLimitInfo"
    /\ fails < 1
    /\ \E error \in RateInfoErrors : ThunkRejects(error)
    /\ UNCHANGED <<clock, ticks, nreq>>
    /\ UNCHANGED <<fvars, dvars, avars>>

\* time passes between two calls: the analysis runs
AdvanceRateInfo == pc = "idle" /\ \E d \in RateInfoTicks : Tick(d)

NextRateInfo ==
    \/ GetRateLimitInfo \/ ResolveRateInfo \/ RejectRateInfo \/ Resume
    \/ RateLimitInfoReturned \/ AdvanceRateInfo

SpecRateInfo == InitRateInfo /\ [][NextRateInfo]_vars

\* ------------------------------------------------------------------------
\* detectCopilotCollaboration(pr), with getPRReviews and getPRCommits going
\* through the retrying client and the cache.

\* login && login.toLowerCase() === 'copilot'
IsCopilotLoginExact(login) == login = "copilot"

IsCopilotLogin(login) == login # "" /\ ToLowerCase(login) = "copilot"

\* Priority 1 and 2: the author or an assignee is Copilot
AuthorOrAssigneeIsCopilot(p) ==
    \/ IsCopilotLogin(p.author)
    \/ \E i \in 1..Len(p.assignees) : IsCopilotLogin(p.assignees[i])

\* Priority 3, one review: the three tests on review.user.login
ReviewerMatchesAnyCopilot(login) ==
    login # "" /\ Includes(ToLowerCase(login), "copilot")

ReviewerMatches(login) ==
    /\ login # ""
    /\ LET reviewerLogin == ToLowerCase(login)
       IN  \/ reviewerLogin = "copilot-pull-request-reviewer[bot]"
           \/ Includes(reviewerLogin, "copilot") /\ Includes(reviewerLogin, "review")
           \/ reviewerLogin = "copilot"

RECURSIVE ScanReviews(_, _)
ScanReviews(reviews, i) ==
    IF i > Len(reviews) THEN "none"
    ELSE IF ReviewerMatches(reviews[i].login) THEN "review"
    ELSE ScanReviews(reviews, i + 1)

ReviewPatterns == <<"review", "feedback", "suggestion", "comment", "approve">>
AgentPatterns == <<"generate", "create", "implement", "code", "develop", "write">>
CopilotKeywords ==
    <<"copilot", "co-pilot", "github copilot", "ai-assisted", "ai assisted">>

\* patterns.some(pattern => s.includes(pattern))
SomeIncluded(s, patterns) == \E i \in 1..Len(patterns) : Includes(s, patterns[i])

\* Priority 4, one commit, the review patterns tested first
CommitCategoryReviewFirst(commitMessage) ==
    LET message == ToLowerCase(commitMessage)
    IN  IF Includes(message, "copilot")
        THEN IF SomeIncluded(message, ReviewPatterns) THEN "review" ELSE "agent"
        ELSE "none"

\* Priority 4, one commit
CommitCategory(commitMessage) ==
    LET message == ToLowerCase(commitMessage)
    IN  IF Includes(message, "co-authored-by:") /\ Includes(message, "copilot")
        THEN "agent"
        ELSE IF Includes(message, "copilot")
        THEN IF SomeIncluded(message, ReviewPatterns) THEN "review" ELSE "agent"
        ELSE "none"

RECURSIVE ScanCommits(_, _)
ScanCommits(commits, i) ==
    IF i > Len(commits) THEN "none"
    ELSE IF CommitCategory(commits[i].message) # "none"
    THEN CommitCategory(commits[i].message)
    ELSE ScanCommits(commits, i + 1)

\* Priority 5 without the test on copilotMentioned
KeywordCategoryUnguarded(p) ==
    LET title == ToLowerCase(p.title)
        body == ToLowerCase(p.body)
    IN  IF SomeIncluded(title, ReviewPatterns) \/ SomeIncluded(body, ReviewPatterns)
        THEN "review"
        ELSE "agent"

\* Priority 5: keywords in the title and the body
KeywordCategory(p) ==
    LET title == ToLowerCase(p.title)
        body == ToLowerCase(p.body)
        copilotMentioned ==
            \E i \in 1..Len(CopilotKeywords) :
                Includes(title, CopilotKeywords[i]) \/ Includes(body, CopilotKeywords[i])
    IN  IF copilotMentioned
        THEN IF SomeIncluded(title, ReviewPatterns) \/ SomeIncluded(body, ReviewPatterns)
             THEN "review"
             ELSE IF SomeIncluded(title, AgentPatterns) \/ SomeIncluded(body, AgentPatterns)
             THEN "agent"
             ELSE "agent"
        ELSE "none"

\* what getPRReviews and getPRCommits return: `data || []`, and [] when the
\* request raised
ListOrEmpty == IF pc = "returned" /\ Truthy(result) THEN result ELSE JArr(<<>>)

\* the elements a for...of loop visits (the bodies here are arrays)
Elements(v) == IF v.kind = "array" THEN v.items ELSE <<>>

\* the call, up to the first await: priorities 1 and 2, then getPRReviews
Detect(p) ==
    /\ dpc = "idle"
    /\ pc = "idle"
    /\ ndet' = ndet + 1
    /\ pr' = p
    /\ reviewsGot' = <<>>
    /\ commitsGot' = <<>>
    /\ IF AuthorOrAssigneeIsCopilot(p)
       THEN /\ category' = "agent"
            /\ dpc' = "done"
            /\ fetches' = 0
            /\ UNCHANGED rvars
       ELSE /\ BeginRequest("getPRReviews", ReviewsKey(p.repo, p.number), TRUE,
                            DefaultMaxRetries)
            /\ category' = ""
            /\ dpc' = "reviews"
            /\ fetches' = 1
    /\ UNCHANGED <<clock, ticks, nreq>>
    /\ UNCHANGED fvars

\* getPRReviews has returned: priority 3, then getPRCommits
AfterReviews ==
    /\ dpc = "reviews"
    /\ pc \in {"returned", "thrown"}
    /\ LET reviews == Elements(ListOrEmpty)
       IN  /\ reviewsGot' = reviews
           /\ IF ScanReviews(reviews, 1) = "review"
              THEN /\ category' = "review"
                   /\ dpc' = "done"
                   /\ fetches' = fetches
                   /\ ReleaseRequest
              ELSE /\ BeginRequest("getPRCommits", CommitsKey(pr.repo, pr.number),
                                   TRUE, DefaultMaxRetries)
                   /\ category' = ""
                   /\ dpc' = "commits"
                   /\ fetches' = fetches + 1
    /\ UNCHANGED <<pr, commitsGot, ndet, clock, ticks, nreq>>
    /\ UNCHANGED <<fvars, avars>>

\* getPRCommits has returned: priority 4, then priority 5
AfterCommits ==
    /\ dpc = "commits"
    /\ pc \in {"returned", "thrown"}
    /\ LET commits == Elements(ListOrEmpty)
       IN  /\ commitsGot' = commits
           /\ category' = IF ScanCommits(commits, 1) # "none"
                          THEN ScanCommits(commits, 1)
                          ELSE KeywordCategory(pr)
    /\ dpc' = "done"
    /\ ReleaseRequest
    /\ UNCHANGED <<pr, fetches, reviewsGot, ndet, clock, ticks, nreq>>
    /\ UNCHANGED <<fvars, avars>>

\* the caller receives the category
DetectReturn ==
    /\ dpc = "done"
    /\ dpc' = "idle"
    /\ pr' = NoPR
    /\ category' = ""
    /\ fetches' = 0
    /\ reviewsGot' = <<>>
    /\ commitsGot' = <<>>
    /\ UNCHANGED ndet
    /\ UNCHANGED <<cvars, fvars>>

ReviewBodies ==
    {JArr(<<>>),
     JArr(<<Review("copilot-pull-request-reviewer[bot]")>>),
     JArr(<<Review("copilot-assistant")>>),
     JArr(<<Review("octocat"), Review("Copilot-Code-Reviewer")>>),
     JArr(<<Review(""), Review("Copilot")>>),
     JNull}

CommitBodies ==
    {JArr(<<>>),
     JArr(<<Commit("Fix typo")>>),
     JArr(<<Commit("Fix typo"),
            Commit("Apply review comment Co-Authored-By: Copilot")>>),
     JArr(<<Commit("Address Copilot review feedback")>>),
     JArr(<<Commit("Let copilot write the parser"), Commit("copilot review")>>)}

DetectErrors == {HttpError(404), HttpError(500)}

DetectCall ==
    /\ ndet < MaxDetections
    /\ \E p \in PullRequests : Detect(p)
    /\ UNCHANGED avars
DetectDone == DetectReturn /\ UNCHANGED avars
ResolveDetect ==
    /\ \E body \in (IF req.who = "getPRReviews" THEN ReviewBodies ELSE CommitBodies) :
           ThunkResolves(body)
    /\ UNCHANGED <<clock, ticks, nreq>>
    /\ UNCHANGED <<fvars, dvars, avars>>
RejectDetect ==
    /\ \E error \in DetectErrors : ThunkRejects(error)
    /\ UNCHANGED <<clock, ticks, nreq>>
    /\ UNCHANGED <<fvars, dvars, avars>>

NextDetect ==
    \/ DetectCall \/ ResolveDetect \/ RejectDetect \/ Resume
    \/ AfterReviews \/ AfterCommits \/ DetectDone

SpecDetect == Init /\ [][NextDetect]_vars

\* ------------------------------------------------------------------------
\* The synchronous classifiers and counters.

\* this.owner
Owner == "test_owner"

\* a commit of the API with commit.author.name, commit.committer.name and
\* commit.message
CommitBy(authorName, committerName, message) ==
    [login |-> "", message |-> message,
     authorName |-> authorName, committerName |-> committerName]

\* a job of a workflow run
Job(startedAt, completedAt) == [started_at |-> startedAt, completed_at |-> completedAt]

\* a workflow run: actor.login, triggering_actor.login, name, display_title,
\* head_commit.message; "" is a missing field
RunAt(id, createdAt, actor, triggeringActor, name, displayTitle, commitMessage) ==
    [id |-> id, created_at |-> createdAt,
     actor |-> actor, triggering_actor |-> triggeringActor, name |-> name,
     display_title |-> displayTitle, head_commit_message |-> commitMessage]

Run(actor, triggeringActor, name, displayTitle, commitMessage) ==
    RunAt(1, "2024-01-10T12:00:00Z", actor, triggeringActor, name, displayTitle,
          commitMessage)

DependabotPatterns == <<"bump", "update", "build(deps)">>

\* detectDependabotPR with the title tested as written
DetectDependabotPRTitleAsWritten(p) ==
    IF p.author # "" /\ ToLowerCase(p.author) \in {"dependabot", "dependabot[bot]"}
    THEN TRUE
    ELSE SomeIncluded(p.title, DependabotPatterns)

\* detectDependabotPR(pr)
DetectDependabotPR(p) ==
    IF p.author # "" /\ ToLowerCase(p.author) \in {"dependabot", "dependabot[bot]"}
    THEN TRUE
    ELSE SomeIncluded(ToLowerCase(p.title), DependabotPatterns)

\* isCopilotCommit without the test on the committer
IsCopilotCommitAuthorOnly(c) ==
    LET message == ToLowerCase(c.message)
    IN  \/ Includes(message, "co-authored-by:") /\ Includes(message, "copilot")
        \/ Includes(ToLowerCase(c.authorName), "copilot")
        \/ Includes(message, "copilot")

\* analyzeCommitCounts, one commit: isCopilotCommit
IsCopilotCommit(c) ==
    LET message == ToLowerCase(c.message)
    IN  \/ Includes(message, "co-authored-by:") /\ Includes(message, "copilot")
        \/ Includes(ToLowerCase(c.authorName), "copilot")
        \/ Includes(ToLowerCase(c.committerName), "copilot")
        \/ Includes(message, "copilot")

\* analyzeCommitCounts(commits): the loop from commit i on
RECURSIVE CountCommits(_, _, _)
CountCommits(commits, i, acc) ==
    IF i > Len(commits) THEN acc
    ELSE LET c == commits[i]
             commitAuthor == IF c.login # "" THEN c.login ELSE c.authorName
         IN  IF IsCopilotCommit(c)
             THEN CountCommits(commits, i + 1,
                               [acc EXCEPT !.copilotCommits = @ + 1])
             ELSE IF commitAuthor = Owner \/ Includes(c.authorName, Owner)
             THEN CountCommits(commits, i + 1, [acc EXCEPT !.userCommits = @ + 1])
             ELSE CountCommits(commits, i + 1, [acc EXCEPT !.userCommits = @ + 1])

AnalyzeCommitCounts(commits) ==
    CountCommits(commits, 1,
                 [totalCommits |-> Len(commits), userCommits |-> 0,
                  copilotCommits |-> 0])

\* JS addition of numbers
JSAdd(x, y) == IF x.nan \/ y.nan THEN NaN ELSE Num(x.n + y.n)

\* the minutes of one job: Math.ceil((endTime - startTime) / (1000 * 60))
JobMinutes(job) ==
    LET startTime == DateParse(job.started_at)
        endTime == DateParse(job.completed_at)
    IN  IF startTime.nan \/ endTime.nan THEN NaN
        ELSE Num(CeilDiv(1000 * (endTime.n - startTime.n), 1000 * 60))

RECURSIVE SumMinutes(_, _, _)
SumMinutes(jobs, i, totalMinutes) ==
    IF i > Len(jobs) THEN totalMinutes
    ELSE IF jobs[i].started_at # "" /\ jobs[i].completed_at # ""
    THEN SumMinutes(jobs, i + 1, JSAdd(totalMinutes, JobMinutes(jobs[i])))
    ELSE SumMinutes(jobs, i + 1, totalMinutes)

\* calculateActionMinutes rounding once, over the whole run
CalculateActionMinutesPerRun(jobs) ==
    LET RECURSIVE DurationMs(_)
        DurationMs(i) ==
            IF i > Len(jobs) THEN Num(0)
            ELSE IF jobs[i].started_at # "" /\ jobs[i].completed_at # ""
            THEN LET startTime == DateParse(jobs[i].started_at)
                     endTime == DateParse(jobs[i].completed_at)
                 IN  JSAdd(IF startTime.nan \/ endTime.nan THEN NaN
                           ELSE Num(1000 * (endTime.n - startTime.n)),
                           DurationMs(i + 1))
            ELSE DurationMs(i + 1)
        d == DurationMs(1)
    IN  IF d.nan THEN NaN ELSE Num(CeilDiv(d.n, 1000 * 60))

\* calculateActionMinutes(jobs)
CalculateActionMinutes(jobs) == SumMinutes(jobs, 1, Num(0))

CopilotActors ==
    <<"copilot", "copilot-swe-agent", "github-copilot[bot]", "copilot[bot]",
      "copilot-pull-request-reviewer[bot]">>

\* isCopilotTriggeredRun with the actors tested by inclusion
IsCopilotTriggeredRunActorIncludes(workflowRun) ==
    LET actor == ToLowerCase(workflowRun.actor)
        triggeringActor == ToLowerCase(workflowRun.triggering_actor)
    IN  \/ Includes(actor, "copilot")
        \/ Includes(triggeringActor, "copilot")
        \/ Includes(ToLowerCase(workflowRun.name), "copilot")
        \/ Includes(ToLowerCase(workflowRun.display_title), "copilot")
        \/ Includes(ToLowerCase(workflowRun.head_commit_message), "copilot")

\* isCopilotTriggeredRun(workflowRun)
IsCopilotTriggeredRun(workflowRun) ==
    LET actor == ToLowerCase(workflowRun.actor)
        triggeringActor == ToLowerCase(workflowRun.triggering_actor)
        isCopilotActor ==
            \E i \in 1..Len(CopilotActors) :
                actor = CopilotActors[i] \/ triggeringActor = CopilotActors[i]
        workflowName == ToLowerCase(workflowRun.name)
        displayTitle == ToLowerCase(workflowRun.display_title)
        commitMessage == ToLowerCase(workflowRun.head_commit_message)
    IN  IF isCopilotActor THEN TRUE
        ELSE \/ Includes(workflowName, "copilot")
             \/ Includes(displayTitle, "copilot")
             \/ Includes(commitMessage, "copilot")

\* sequences over S of length at most n
SeqsUpTo(S, n) == UNION {[1..k -> S] : k \in 0..n}

\* inputs
DependabotAuthors ==
    {"dependabot[bot]", "Dependabot", "human_user", "", "dependabot-preview[bot]"}
DependabotTitles ==
    {"Bump axios from 1.0.0 to 1.6.0", "Add new feature", "UPDATE readme",
     "build(deps): bump lodash", "Build(Deps-dev) refresh", "Bum update", ""}
DependabotInputs ==
    {PullRequest(1, a, <<>>, t, "") : a \in DependabotAuthors, t \in DependabotTitles}

CountedCommits ==
    {CommitBy("test_owner", "test_owner", "Fix typo"),
     CommitBy("Copilot", "GitHub", "Initial plan"),
     CommitBy("octocat", "copilot-swe-agent", "Apply changes"),
     CommitBy("octocat", "GitHub", "Fix bug Co-authored-by: Copilot <c@github.com>"),
     CommitBy("octocat", "GitHub", "Address COPILOT remarks"),
     CommitBy("", "", "")}
CommitInputs == SeqsUpTo(CountedCommits, MaxCommits)

TimedJobs ==
    {Job("2024-01-01T10:00:00Z", "2024-01-01T10:02:30Z"),
     Job("2024-01-01T11:00:00Z", "2024-01-01T11:05:00Z"),
     Job("2024-02-29T23:59:30Z", "2024-03-01T00:00:01Z"),
     Job("2023-12-31T23:00:00Z", "2024-01-01T01:00:00Z"),
     Job("2024-01-01T10:00:00Z", "2024-01-01T10:00:00Z"),
     Job("2024-01-01T10:02:30Z", "2024-01-01T10:00:00Z"),
     Job("2024-01-01T10:00:00Z", ""),
     Job("", "2024-01-01T10:02:30Z"),
     Job("abc", "2024-01-01T10:02:30Z")}
JobInputs == SeqsUpTo(TimedJobs, MaxJobs)

RunInputs ==
    {Run(a, t, n, d, m) :
        a \in {"", "Copilot", "copilot-swe-agent", "regularuser", "copilot-bot"},
        t \in {"", "GitHub-Copilot[bot]", "regularuser"},
        n \in {"", "COPILOT Analysis", "Regular CI Build"},
        d \in {"Normal PR", "PR from Copilot"},
        m \in {"", "Fix issue with copilot integration"}}

\* a call: the function and its argument
Call(f, X) == {[f |-> f, x |-> x] : x \in X}

InitFunctions ==
    /\ InitClient
    /\ InitNoDetection
    /\ InitNoAnalysis
    /\ fn = ""
    /\ \/ arg \in Call("detectDependabotPR", DependabotInputs)
       \/ arg \in Call("analyzeCommitCounts", CommitInputs)
       \/ arg \in Call("calculateActionMinutes", JobInputs)
       \/ arg \in Call("isCopilotTriggeredRun", RunInputs)
    /\ out = <<>>

Apply(f, value) ==
    /\ fn = ""
    /\ arg.f = f
    /\ fn' = f
    /\ out' = <<value>>
    /\ UNCHANGED arg
    /\ UNCHANGED <<cvars, dvars, avars>>

CallDetectDependabotPR == Apply("detectDependabotPR", DetectDependabotPR(arg.x))
CallAnalyzeCommitCounts == Apply("analyzeCommitCounts", AnalyzeCommitCounts(arg.x))
CallCalculateActionMinutes ==
    Apply("calculateActionMinutes", CalculateActionMinutes(arg.x))
CallIsCopilotTriggeredRun ==
    Apply("isCopilotTriggeredRun", IsCopilotTriggeredRun(arg.x))

NextFunctions ==
    \/ CallDetectDependabotPR
    \/ CallAnalyzeCommitCounts
    \/ CallCalculateActionMinutes
    \/ CallIsCopilotTriggeredRun

SpecFunctions == InitFunctions /\ [][NextFunctions]_vars

\* ------------------------------------------------------------------------
\* The enrichment fetchers getPRReviews, getPRCommits, getPRFiles and
\* getWorkflowRunJobs: one request with three retries and the cache, and a
\* catch around it.
ListFetchers == {"getPRReviews", "getPRCommits", "getPRFiles"}
Fetchers == ListFetchers \cup {"getWorkflowRunJobs"}

FetcherKey(who, repo, id) ==
    CASE who = "getPRReviews" -> ReviewsKey(repo, id)
      [] who = "getPRCommits" -> CommitsKey(repo, id)
      [] who = "getPRFiles" -> FilesKey(repo, id)
      [] OTHER -> JobsKey(repo, id)

\* getWorkflowRunJobs returns the response as it is, and { jobs: [] } when
\* the request raised
JobsOrEmpty == IF pc = "returned" THEN result ELSE JObj(<<>>)

\* the fetchers returning what the request returned, with no default
FetcherResultNoDefault(who) == result

\* what the fetcher who returns once its request is over
FetcherResult(who) == IF who \in ListFetchers THEN ListOrEmpty ELSE JobsOrEmpty

\* the fetcher is called
Fetch(who, repo, id) ==
    /\ pc = "idle"
    /\ dpc = "idle"
    /\ BeginRequest(who, FetcherKey(who, repo, id), TRUE, DefaultMaxRetries)
    /\ fn' = ""
    /\ arg' = <<>>
    /\ out' = <<>>

\* the fetcher returns to its caller; arg keeps how its request went
FetcherReturn ==
    /\ pc \in {"returned", "thrown"}
    /\ dpc = "idle"
    /\ req.who \in Fetchers
    /\ fn' = req.who
    /\ arg' = [cacheKey |-> req.cacheKey, failed |-> pc = "thrown",
               error |-> thrown, calls |-> calls, sleeps |-> sleeps,
               response |-> result]
    /\ out' = <<FetcherResult(req.who)>>
    /\ ReleaseRequest

FetchIds == {1}
FetchKeys == {FetcherKey(who, "o/r", id) : who \in Fetchers, id \in FetchIds}
ListBodies == {JArr(<<>>), JArr(<<Review("octocat")>>), JNull}
JobsBodies ==
    {JObj(<<>>), JObj(<<Job("2024-01-01T10:00:00Z", "2024-01-01T10:02:30Z")>>)}
FetchErrors == {HttpError(404), HttpError(500)}

InitFetch ==
    /\ InitClientOver(FetchKeys)
    /\ InitNoCall
    /\ InitNoDetection
    /\ InitNoAnalysis

FetchCall ==
    /\ nreq < MaxRequests
    /\ nreq' = nreq + 1
    /\ \E who \in Fetchers, id \in FetchIds : Fetch(who, "o/r", id)
    /\ UNCHANGED <<clock, ticks>>
    /\ UNCHANGED <<dvars, avars>>
ResolveFetch ==
    /\ req.who \in Fetchers
    /\ \E body \in (IF req.who \in ListFetchers THEN ListBodies ELSE JobsBodies) :
           ThunkResolves(body)
    /\ UNCHANGED <<clock, ticks, nreq>>
    /\ UNCHANGED <<fvars, dvars, avars>>
RejectFetch ==
    /\ \E error \in FetchErrors : ThunkRejects(error)
    /\ UNCHANGED <<clock, ticks, nreq>>
    /\ UNCHANGED <<fvars, dvars, avars>>
FetchReturn ==
    /\ FetcherReturn
    /\ UNCHANGED <<clock, ticks, nreq>>
    /\ UNCHANGED <<dvars, avars>>

NextFetch ==
    FetchCall \/ ResolveFetch \/ RejectFetch \/ Resume \/ FetchReturn \/ Advance

SpecFetch == InitFetch /\ [][NextFetch]_vars

\* ------------------------------------------------------------------------
\* getRepositoryPullRequests(repo, since): the pages of the listing, each
\* through the retrying client, filtered by creation date.

\* the page kept as it is
FilterSinceKeepsAll(response, since) == response

\* response.filter(pr => new Date(pr.created_at) >= since)
FilterSince(response, since) ==
    LET InRange(p) ==
            LET createdAt == DateParse(p.created_at)
            IN  ~createdAt.nan /\ createdAt.n >= since
    IN  SelectSeq(response, InRange)

\* what is recorded of the request of one page
CountRequest(l) ==
    [l EXCEPT !.calls = @ + calls, !.sleeps = @ + sleeps, !.fails = @ + fails]

\* the call, up to the first await
ListPulls(repo, since) ==
    /\ listing.pc = "idle"
    /\ pc = "idle"
    /\ listing' = [NoListing EXCEPT !.pc = "fetching",
                                    !.fetcher = "getRepositoryPullRequests",
                                    !.repo = repo, !.since = since, !.page = 1]
    /\ BeginRequest("getRepositoryPullRequests", PullsKey(repo, since, 1), TRUE,
                    DefaultMaxRetries)

\* the request of a page is over, with a 404 raised like every other error
PullsPageRaisesOn404 ==
    /\ listing.pc = "fetching"
    /\ listing.fetcher = "getRepositoryPullRequests"
    /\ pc \in {"returned", "thrown"}
    /\ IF pc = "thrown"
       THEN /\ listing' = [CountRequest(listing) EXCEPT
                              !.pc = "raised", !.error = thrown,
                              !.failure = thrown]
            /\ ReleaseRequest
       ELSE LET response == result
                filteredPRs == FilterSince(Elements(response), listing.since)
                pulls == listing.items \o filteredPRs
            IN  IF ~Truthy(response) \/ Len(Elements(response)) = 0
                THEN /\ listing' = [CountRequest(listing) EXCEPT !.pc = "returned"]
                     /\ ReleaseRequest
                ELSE IF \/ Len(Elements(response)) < PerPage
                        \/ Len(filteredPRs) < Len(Elements(response))
                THEN /\ listing' = [CountRequest(listing) EXCEPT
                                       !.pc = "returned", !.items = pulls]
                     /\ ReleaseRequest
                ELSE /\ listing' = [CountRequest(listing) EXCEPT
                                       !.items = pulls, !.page = @ + 1]
                     /\ BeginRequest("getRepositoryPullRequests",
                                     PullsKey(listing.repo, listing.since,
                                              listing.page + 1),
                                     TRUE, DefaultMaxRetries)

\* the request of a page is over: the catch, or the filter and the loop test
PullsPage ==
    /\ listing.pc = "fetching"
    /\ listing.fetcher = "getRepositoryPullRequests"
    /\ pc \in {"returned", "thrown"}
    /\ IF pc = "thrown"
       THEN /\ IF thrown.response /\ thrown.status = 404
               THEN listing' = [CountRequest(listing) EXCEPT
                                   !.pc = "returned", !.items = <<>>,
                                   !.failure = thrown]
               ELSE listing' = [CountRequest(listing) EXCEPT
                                   !.pc = "raised", !.error = thrown,
                                   !.failure = thrown]
            /\ ReleaseRequest
       ELSE LET response == result
                filteredPRs == FilterSince(Elements(response), listing.since)
                pulls == listing.items \o filteredPRs
            IN  IF ~Truthy(response) \/ Len(Elements(response)) = 0
                THEN /\ listing' = [CountRequest(listing) EXCEPT !.pc = "returned"]
                     /\ ReleaseRequest
                ELSE IF \/ Len(Elements(response)) < PerPage
                        \/ Len(filteredPRs) < Len(Elements(response))
                THEN /\ listing' = [CountRequest(listing) EXCEPT
                                       !.pc = "returned", !.items = pulls]
                     /\ ReleaseRequest
                ELSE /\ listing' = [CountRequest(listing) EXCEPT
                                       !.items = pulls, !.page = @ + 1]
                     /\ BeginRequest("getRepositoryPullRequests",
                                     PullsKey(listing.repo, listing.since,
                                              listing.page + 1),
                                     TRUE, DefaultMaxRetries)

\* the caller receives the list or the error
ListingReturn ==
    /\ listing.pc \in {"returned", "raised"}
    /\ listing' = NoListing

\* inputs: the analysis window starts on 1 January 2024
Since == DateParse("2024-01-01T00:00:00Z").n
InWindow == "2024-01-10T12:00:00Z"
AtSince == "2024-01-01T00:00:00Z"
TooOld == "2023-12-31T23:59:59Z"

ListedPR(number, createdAt) ==
    PullRequestIn("o/r", number, "octocat", <<>>, "Test PR", "Test body", createdAt)

\* page k of a listing: a full page whose PR at position old, if any, was
\* created before the window
FullPage(k, old) ==
    [i \in 1..PerPage |->
        ListedPR(PerPage * (k - 1) + i, IF i = old THEN TooOld ELSE InWindow)]

PullsBodies(k) ==
    {JArr(<<>>), JNull,
     JArr(<<ListedPR(PerPage * (k - 1) + 1, InWindow),
            ListedPR(PerPage * (k - 1) + 2, AtSince)>>),
     JArr(<<ListedPR(PerPage * (k - 1) + 1, TooOld),
            ListedPR(PerPage * (k - 1) + 2, InWindow),
            ListedPR(PerPage * (k - 1) + 3, "")>>),
     JArr(FullPage(k, 1)), JArr(FullPage(k, PerPage))}
    \cup (IF k < MaxPages THEN {JArr(FullPage(k, 0))} ELSE {})

PullsErrors == {HttpError(404), HttpError(500), HttpError(403)}
PullsKeys == {PullsKey("o/r", Since, k) : k \in 1..MaxPages}

InitPulls ==
    /\ InitClientOver(PullsKeys)
    /\ InitNoCall
    /\ InitNoDetection
    /\ InitNoAnalysis

PullsCall ==
    /\ an.pc = "idle"
    /\ nreq < MaxRequests
    /\ nreq' = nreq + 1
    /\ ListPulls("o/r", Since)
    /\ UNCHANGED <<clock, ticks>>
    /\ UNCHANGED <<fvars, dvars, an, weeklyData, totals>>
ResolvePulls ==
    /\ req.who = "getRepositoryPullRequests"
    /\ \E body \in PullsBodies(listing.page) : ThunkResolves(body)
    /\ UNCHANGED <<clock, ticks, nreq>>
    /\ UNCHANGED <<fvars, dvars, avars>>
RejectPulls ==
    /\ \E error \in PullsErrors : ThunkRejects(error)
    /\ UNCHANGED <<clock, ticks, nreq>>
    /\ UNCHANGED <<fvars, dvars, avars>>
PullsStep ==
    /\ PullsPage
    /\ UNCHANGED <<clock, ticks, nreq>>
    /\ UNCHANGED <<fvars, dvars, an, weeklyData, totals>>
PullsReturn ==
    /\ an.pc = "idle"
    /\ listing.fetcher = "getRepositoryPullRequests"
    /\ ListingReturn
    /\ UNCHANGED <<cvars, fvars, dvars, an, weeklyData, totals>>

NextPulls ==
    PullsCall \/ ResolvePulls \/ RejectPulls \/ Resume \/ PullsStep \/ PullsReturn

SpecPulls == InitPulls /\ [][NextPulls]_vars

\* ------------------------------------------------------------------------
\* getUserRepositories() and getRepositoryWorkflowRuns(repoFullName, since):
\* the two other paginated fetchers.
ReposKey(owner, page) == "repos_" \o owner \o "_" \o ToString(page)
RunsKey(repoFullName, since, page) ==
    "workflow_runs_" \o repoFullName \o "_" \o ToISOString(since) \o "_"
    \o ToString(page)

\* a repository of the API: full_name and the flags archived, disabled, private
Repo(fullName, archived, disabled, private) ==
    [full_name |-> fullName, archived |-> archived, disabled |-> disabled,
     private |-> private]

\* getUserRepositories, up to the first await
ListRepos ==
    /\ listing.pc = "idle"
    /\ pc = "idle"
    /\ listing' = [NoListing EXCEPT !.pc = "fetching",
                                    !.fetcher = "getUserRepositories",
                                    !.repo = Owner, !.page = 1]
    /\ BeginRequest("getUserRepositories", ReposKey(Owner, 1), TRUE,
                    DefaultMaxRetries)

\* the request of a page of repositories is over, a page replacing the
\* repositories listed so far
ReposPageKeepsLastPage ==
    /\ listing.pc = "fetching"
    /\ listing.fetcher = "getUserRepositories"
    /\ pc \in {"returned", "thrown"}
    /\ IF pc = "thrown"
       THEN /\ listing' = [CountRequest(listing) EXCEPT
                              !.pc = "raised", !.error = thrown,
                              !.failure = thrown]
            /\ ReleaseRequest
       ELSE LET response == result
            IN  IF ~Truthy(response) \/ Len(Elements(response)) = 0
                THEN /\ listing' = [CountRequest(listing) EXCEPT !.pc = "returned"]
                     /\ ReleaseRequest
                ELSE /\ listing' = [CountRequest(listing) EXCEPT
                                       !.items = Elements(response),
                                       !.page = @ + 1]
                     /\ BeginRequest("getUserRepositories",
                                     ReposKey(Owner, listing.page + 1), TRUE,
                                     DefaultMaxRetries)

\* the request of a page of repositories is over
ReposPage ==
    /\ listing.pc = "fetching"
    /\ listing.fetcher = "getUserRepositories"
    /\ pc \in {"returned", "thrown"}
    /\ IF pc = "thrown"
       THEN /\ listing' = [CountRequest(listing) EXCEPT
                              !.pc = "raised", !.error = thrown,
                              !.failure = thrown]
            /\ ReleaseRequest
       ELSE LET response == result
            IN  IF ~Truthy(response) \/ Len(Elements(response)) = 0
                THEN /\ listing' = [CountRequest(listing) EXCEPT !.pc = "returned"]
                     /\ ReleaseRequest
                ELSE /\ listing' = [CountRequest(listing) EXCEPT
                                       !.items = @ \o Elements(response),
                                       !.page = @ + 1]
                     /\ BeginRequest("getUserRepositories",
                                     ReposKey(Owner, listing.page + 1), TRUE,
                                     DefaultMaxRetries)

\* getRepositoryWorkflowRuns, up to the first await
ListRuns(repoFullName, since) ==
    /\ listing.pc = "idle"
    /\ pc = "idle"
    /\ listing' = [NoListing EXCEPT !.pc = "fetching",
                                    !.fetcher = "getRepositoryWorkflowRuns",
                                    !.repo = repoFullName, !.since = since,
                                    !.page = 1]
    /\ BeginRequest("getRepositoryWorkflowRuns", RunsKey(repoFullName, since, 1),
                    TRUE, DefaultMaxRetries)

\* the request of a page of workflow runs is over, an empty first page not
\* ending the loop
RunsPageEmptyFirstPage ==
    /\ listing.pc = "fetching"
    /\ listing.fetcher = "getRepositoryWorkflowRuns"
    /\ pc \in {"returned", "thrown"}
    /\ IF pc = "thrown" \/ result.kind # "object"
       THEN /\ listing' = [CountRequest(listing) EXCEPT
                              !.pc = "returned",
                              !.failure = IF pc = "thrown" THEN thrown ELSE @]
            /\ ReleaseRequest
       ELSE IF Len(result.items) = 0 /\ listing.page > 1
       THEN /\ listing' = [CountRequest(listing) EXCEPT !.pc = "returned"]
            /\ ReleaseRequest
       ELSE /\ listing' = [CountRequest(listing) EXCEPT
                              !.items = @ \o result.items, !.page = @ + 1]
            /\ BeginRequest("getRepositoryWorkflowRuns",
                            RunsKey(listing.repo, listing.since, listing.page + 1),
                            TRUE, DefaultMaxRetries)

\* the request of a page of workflow runs is over.  The body is
\* { workflow_runs: [...] }; reading workflow_runs of a null body raises
\* inside the try, and every error ends the loop with the runs listed so far.
RunsPage ==
    /\ listing.pc = "fetching"
    /\ listing.fetcher = "getRepositoryWorkflowRuns"
    /\ pc \in {"returned", "thrown"}
    /\ IF pc = "thrown" \/ result.kind # "object"
       THEN /\ listing' = [CountRequest(listing) EXCEPT
                              !.pc = "returned",
                              !.failure = IF pc = "thrown" THEN thrown ELSE @]
            /\ ReleaseRequest
       ELSE IF Len(result.items) = 0
       THEN /\ listing' = [CountRequest(listing) EXCEPT !.pc = "returned"]
            /\ ReleaseRequest
       ELSE /\ listing' = [CountRequest(listing) EXCEPT
                              !.items = @ \o result.items, !.page = @ + 1]
            /\ BeginRequest("getRepositoryWorkflowRuns",
                            RunsKey(listing.repo, listing.since, listing.page + 1),
                            TRUE, DefaultMaxRetries)

ReposStep ==
    /\ ReposPage
    /\ UNCHANGED <<clock, ticks, nreq>>
    /\ UNCHANGED <<fvars, dvars, an, weeklyData, totals>>

RunsStep ==
    /\ RunsPage
    /\ UNCHANGED <<clock, ticks, nreq>>
    /\ UNCHANGED <<fvars, dvars, an, weeklyData, totals>>

\* ------------------------------------------------------------------------
\* The three paginated fetchers over a listing the API holds: arg is the
\* fetcher and the bodies of the pages of the listing, page k of which is the
\* answer to the request for page k; past the last page the API answers with
\* an empty page.
Paginated ==
    {"getUserRepositories", "getRepositoryPullRequests", "getRepositoryWorkflowRuns"}

EmptyPage(fetcher) ==
    IF fetcher = "getRepositoryWorkflowRuns" THEN JObj(<<>>) ELSE JArr(<<>>)

\* the body the API answers the request for page k with
PageBody(call, k) ==
    IF k \in DOMAIN call.pages THEN call.pages[k] ELSE EmptyPage(call.fetcher)

ListedRepo(n) == Repo("test_owner/r" \o ToString(n), FALSE, FALSE, FALSE)
ListedRun(n) == RunAt(n, InWindow, "Copilot", "", "CI", "Normal PR", "")

\* the full pages and the last pages of the listings
FullPages(fetcher, k) ==
    CASE fetcher = "getUserRepositories" ->
             {JArr([i \in 1..PerPage |-> ListedRepo(PerPage * (k - 1) + i)])}
      [] fetcher = "getRepositoryPullRequests" ->
             {JArr(FullPage(k, 0)), JArr(FullPage(k, 1)), JArr(FullPage(k, PerPage))}
      [] OTHER ->
             {JObj([i \in 1..PerPage |-> ListedRun(PerPage * (k - 1) + i)])}

LastPages(fetcher, k) ==
    CASE fetcher = "getUserRepositories" ->
             {JArr(<<>>), JNull,
              JArr(<<ListedRepo(PerPage * (k - 1) + 1),
                     ListedRepo(PerPage * (k - 1) + 2)>>)}
      [] fetcher = "getRepositoryPullRequests" ->
             {JArr(<<>>), JNull,
              JArr(<<ListedPR(PerPage * (k - 1) + 1, InWindow),
                     ListedPR(PerPage * (k - 1) + 2, AtSince)>>),
              JArr(<<ListedPR(PerPage * (k - 1) + 1, TooOld),
                     ListedPR(PerPage * (k - 1) + 2, InWindow)>>)}
      [] OTHER ->
             {JObj(<<>>), JNull,
              JObj(<<ListedRun(PerPage * (k - 1) + 1),
                     ListedRun(PerPage * (k - 1) + 2)>>)}

\* the listings of n pages: full pages, then a last page
RECURSIVE ListingsOf(_, _, _)
ListingsOf(fetcher, k, n) ==
    IF k = n THEN {<<b>> : b \in FullPages(fetcher, k) \cup LastPages(fetcher, k)}
    ELSE {<<b>> \o rest : b \in FullPages(fetcher, k),
                          rest \in ListingsOf(fetcher, k + 1, n)}

Listings(fetcher) ==
    {[fetcher |-> fetcher, pages |-> ps] :
        ps \in UNION {ListingsOf(fetcher, 1, n) : n \in 1..MaxPages}}

PagesKeys ==
    UNION {{ReposKey(Owner, k), PullsKey("o/r", Since, k), RunsKey("o/r", Since, k)} :
              k \in 1..(MaxPages + 1)}

PagesErrors == {HttpError(404), HttpError(500)}

InitPages ==
    /\ InitClientOver(PagesKeys)
    /\ InitNoDetection
    /\ InitNoAnalysis
    /\ fn = ""
    /\ \/ arg \in Listings("getUserRepositories")
       \/ arg \in Listings("getRepositoryPullRequests")
       \/ arg \in Listings("getRepositoryWorkflowRuns")
    /\ out = <<>>

\* the fetcher is called
PagesCall ==
    /\ fn = ""
    /\ an.pc = "idle"
    /\ fn' = arg.fetcher
    /\ CASE arg.fetcher = "getUserRepositories" -> ListRepos
         [] arg.fetcher = "getRepositoryPullRequests" -> ListPulls("o/r", Since)
         [] OTHER -> ListRuns("o/r", Since)
    /\ UNCHANGED <<clock, ticks, nreq, arg, out>>
    /\ UNCHANGED <<dvars, an, weeklyData, totals>>

ResolvePage ==
    /\ fn \in Paginated
    /\ ThunkResolves(PageBody(arg, listing.page))
    /\ UNCHANGED <<clock, ticks, nreq>>
    /\ UNCHANGED <<fvars, dvars, avars>>

RejectPage ==
    /\ fn \in Paginated
    /\ \E error \in PagesErrors : ThunkRejects(error)
    /\ UNCHANGED <<clock, ticks, nreq>>
    /\ UNCHANGED <<fvars, dvars, avars>>

\* the caller receives the list, or the error: out keeps it with the number
\* of the last page requested and whether an attempt failed
PagesReturn ==
    /\ fn \in Paginated
    /\ out = <<>>
    /\ an.pc = "idle"
    /\ listing.pc \in {"returned", "raised"}
    /\ out' = <<[raised |-> listing.pc = "raised", items |-> listing.items,
                 page |-> listing.page, fails |-> listing.fails,
                 failure |-> listing.failure]>>
    /\ ListingReturn
    /\ UNCHANGED <<cvars, fn, arg, dvars, an, weeklyData, totals>>

NextPages ==
    \/ PagesCall \/ ResolvePage \/ RejectPage \/ Resume
    \/ ReposStep \/ PullsStep \/ RunsStep \/ PagesReturn

SpecPages == InitPages /\ [][NextPages]_vars

\* the API answers every request and every sleep ends
FairSpecPages == SpecPages /\ WF_vars(NextPages)

\* ------------------------------------------------------------------------
\* analyzePullRequests(): the helpers of the aggregation.

\* shouldSkipRepository(repoData)
ShouldSkipRepository(repoData) == repoData.archived \/ repoData.disabled

\* isPrivateRepository(repoData)
IsPrivateRepository(repoData) == repoData.private

\* maskPrivateRepoName(repoName, isPrivate); ci is isRunningInCI()
MaskPrivateRepoName(repoName, isPrivate, ci) ==
    IF ci /\ isPrivate THEN "<private-repo>" ELSE repoName

\* the position of the first "/" of s from i on, 0 if there is none
RECURSIVE IndexOfSlash(_, _)
IndexOfSlash(s, i) ==
    IF i > Len(s) THEN 0
    ELSE IF Char(s, i) = "/" THEN i ELSE IndexOfSlash(s, i + 1)

\* const [orgName, repoShortName] =
\*     repoName.includes('/') ? repoName.split('/') : ['', repoName]
OrgAndName(repoName) ==
    LET i == IndexOfSlash(repoName, 1)
        j == IF i = 0 THEN 0 ELSE IndexOfSlash(repoName, i + 1)
    IN  IF i = 0 THEN [org |-> "", name |-> repoName]
        ELSE [org |-> SubSeq(repoName, 1, i - 1),
              name |-> SubSeq(repoName, i + 1,
                              IF j = 0 THEN Len(repoName) ELSE j - 1)]

\* the names every plain object inherits from Object.prototype: looked up in
\* partiallySkipped they give a function or an object, which is truthy and
\* has no method includes
ObjectPrototypeMembers ==
    {"constructor", "__proto__", "hasOwnProperty", "isPrototypeOf",
     "propertyIsEnumerable", "toLocaleString", "toString", "valueOf",
     "__defineGetter__", "__defineSetter__", "__lookupGetter__",
     "__lookupSetter__"}

\* shouldSkipRepositoryByOrg(repoName, skippedOrgs): the value returned, or
\* raised when `skippedOrgs.partiallySkipped[orgName].includes` is not a
\* function
ShouldSkipRepositoryByOrg(repoName, skippedOrgs) ==
    LET on == OrgAndName(repoName)
    IN  IF on.org \in skippedOrgs.fullySkipped
        THEN [raised |-> FALSE, value |-> TRUE]
        ELSE IF on.org \in DOMAIN skippedOrgs.partiallySkipped
        THEN [raised |-> FALSE,
              value |-> on.name \notin skippedOrgs.partiallySkipped[on.org]]
        ELSE IF on.org \in ObjectPrototypeMembers
        THEN [raised |-> TRUE, value |-> FALSE]
        ELSE [raised |-> FALSE, value |-> FALSE]

\* getWeekKey(date), the local time zone being UTC.  1 January 2024 is a
\* Monday (getDay() = 1).
GetWeekKey(date) ==
    IF date.nan THEN "NaN-WNaN"
    ELSE LET yd == YearOfDay(date.n \div 86400, 2024)
             startDay == (1 + DaysBeforeYear(yd.year)) % 7
             weekNumber == CeilDiv(yd.day + startDay + 1, 7)
         IN  ToString(yd.year) \o "-W" \o PadStart(ToString(weekNumber), 2)

\* a file of a PR
File(additions, deletions, changes) ==
    [additions |-> additions, deletions |-> deletions, changes |-> changes]

\* analyzeLineChanges(files)
RECURSIVE SumLines(_, _, _)
SumLines(files, i, acc) ==
    IF i > Len(files) THEN acc
    ELSE SumLines(files, i + 1,
                  [acc EXCEPT !.additions = @ + files[i].additions,
                              !.deletions = @ + files[i].deletions,
                              !.changes = @ + files[i].changes])

AnalyzeLineChanges(files) ==
    SumLines(files, 1,
             [additions |-> 0, deletions |-> 0, changes |-> 0,
              filesChanged |-> Len(files)])

\* a bucket of weeklyData as it is created for a PR
NewBucket ==
    [totalPRs |-> 0, copilotAssistedPRs |-> 0, copilotReviewPRs |-> 0,
     copilotAgentPRs |-> 0, collaborators |-> {}, repositories |-> {},
     pullRequests |-> <<>>, hasActionsUsage |-> FALSE,
     actionsUsage |-> [totalMinutes |-> Num(0), totalRuns |-> 0,
                       runDetails |-> <<>>]]

NoBuckets == [k \in {} |-> NewBucket]

\* if (!weeklyData[weekKey]) weeklyData[weekKey] = {...}
WithBucket(wd, weekKey) ==
    IF weekKey \in DOMAIN wd THEN wd
    ELSE [k \in DOMAIN wd \cup {weekKey} |->
             IF k = weekKey THEN NewBucket ELSE wd[k]]

\* the logins of a list of reviews or assignees, the missing ones left out
Logins(items) == {items[i].login : i \in DOMAIN items} \ {""}
Names(logins) == {logins[i] : i \in DOMAIN logins} \ {""}

\* ------------------------------------------------------------------------
\* analyzePullRequests(): one action per stretch of code between two awaits.
\* an.pc is the await the analysis stands at (or is about to reach):
\*   "loading"  loadSkippedOrganizations()
\*   "repos"    getUserRepositories()
\*   "repo"     the head of the loop over the repositories
\*   "pulls"    getRepositoryPullRequests(repoFullName, since)
\*   "pr"       the head of the loop over the pull requests
\*   "involved" getPRReviews for the involvement check
\*   "collab"   getPRReviews for the collaborators of the week
\*   "classify", "detect"  detectCopilotCollaboration(pr)
\*   "commits"  getPRCommits for the commit counts
\*   "files"    getPRFiles for the line changes
\*   "record"   getPRReviews for the collaborators of the PR record
\*   "actions", "runs", "jobs", "usage"  analyzeActionsUsage(repoFullName, since)
\*   "done", "raised"  the report is returned, the analysis raised

\* the repository and the pull request the loops stand at
CurRepo == an.repositories[an.ri]
CurPR == an.pulls[an.pi]
MaskedRepoName ==
    MaskPrivateRepoName(CurRepo.full_name, IsPrivateRepository(CurRepo), an.ci)

\* analyzePullRequests is called: `since` is computed and the function waits
\* for loadSkippedOrganizations()
AnalyzeStart(repo, ci, since) ==
    /\ an.pc = "idle"
    /\ pc = "idle"
    /\ dpc = "idle"
    /\ listing.pc = "idle"
    /\ weeklyData' = NoBuckets
    /\ totals' = NoTotals
    /\ an' = [NoAnalysis EXCEPT !.pc = "loading", !.ci = ci, !.repo = repo,
                                !.since = since]
    /\ UNCHANGED <<rvars, listing>>
    /\ UNCHANGED <<clock, ticks, nreq>>
    /\ UNCHANGED <<fvars, dvars>>

\* loadSkippedOrganizations() has returned skippedOrgs: in single-repository
\* mode the list holds this repository, else the repositories are fetched
SkippedOrganizationsLoaded(skippedOrgs) ==
    /\ an.pc = "loading"
    /\ pc = "idle"
    /\ listing.pc = "idle"
    /\ IF an.repo # ""
       THEN /\ an' = [an EXCEPT
                         !.pc = "repo", !.skippedOrgs = skippedOrgs,
                         !.repositories =
                             <<Repo(Owner \o "/" \o an.repo, FALSE, FALSE, FALSE)>>,
                         !.ri = 1]
            /\ UNCHANGED <<rvars, listing>>
       ELSE /\ an' = [an EXCEPT !.pc = "repos", !.skippedOrgs = skippedOrgs]
            /\ ListRepos
    /\ UNCHANGED <<clock, ticks, nreq>>
    /\ UNCHANGED <<fvars, dvars, weeklyData, totals>>

\* getUserRepositories returned the list, or raised and the analysis goes
\* on with no repository
ReposListedContinues ==
    /\ an.pc = "repos"
    /\ listing.fetcher = "getUserRepositories"
    /\ listing.pc \in {"returned", "raised"}
    /\ an' = [an EXCEPT !.pc = "repo", !.ri = 1,
                        !.repositories = IF listing.pc = "returned"
                                         THEN listing.items ELSE <<>>]
    /\ ListingReturn
    /\ UNCHANGED <<cvars, fvars, dvars, weeklyData, totals>>

\* getUserRepositories returned the list, or raised
ReposListed ==
    /\ an.pc = "repos"
    /\ listing.fetcher = "getUserRepositories"
    /\ listing.pc \in {"returned", "raised"}
    /\ IF listing.pc = "returned"
       THEN an' = [an EXCEPT !.pc = "repo", !.repositories = listing.items,
                             !.ri = 1]
       ELSE an' = [an EXCEPT !.pc = "raised", !.error = listing.error]
    /\ ListingReturn
    /\ UNCHANGED <<cvars, fvars, dvars, weeklyData, totals>>

\* the percentage in hundredths, the fraction cut off
PercentHundredthsTruncated(count, total) ==
    IF total > 0 THEN (10000 * count) \div total ELSE 0

\* Math.round(count / total * 100 * 100), the percentage in hundredths; the
\* double arithmetic gives this integer for every total below 160
PercentHundredths(count, total) ==
    IF total > 0 THEN (20000 * count + total) \div (2 * total) ELSE 0

\* the sums of the actions usage over the weeks that have one
RECURSIVE SumWeekRuns(_, _)
SumWeekRuns(wd, weeks) ==
    IF weeks = {} THEN 0
    ELSE LET k == CHOOSE x \in weeks : TRUE
         IN  wd[k].actionsUsage.totalRuns + SumWeekRuns(wd, weeks \ {k})

RECURSIVE SumWeekMinutes(_, _)
SumWeekMinutes(wd, weeks) ==
    IF weeks = {} THEN Num(0)
    ELSE LET k == CHOOSE x \in weeks : TRUE
         IN  JSAdd(wd[k].actionsUsage.totalMinutes,
                   SumWeekMinutes(wd, weeks \ {k}))

\* a week of the final report
FinalWeek(data) ==
    [totalPRs |-> data.totalPRs,
     copilotAssistedPRs |-> data.copilotAssistedPRs,
     copilotReviewPRs |-> data.copilotReviewPRs,
     copilotAgentPRs |-> data.copilotAgentPRs,
     copilotPercentage |-> PercentHundredths(data.copilotAssistedPRs, data.totalPRs),
     copilotReviewPercentage |->
         PercentHundredths(data.copilotReviewPRs, data.totalPRs),
     copilotAgentPercentage |->
         PercentHundredths(data.copilotAgentPRs, data.totalPRs),
     uniqueCollaborators |-> Cardinality(data.collaborators),
     collaborators |-> data.collaborators,
     repositories |-> data.repositories,
     pullRequests |-> data.pullRequests,
     actionsUsage |-> data.actionsUsage]

\* the report analyzePullRequests returns
FinalReport ==
    LET withUsage == {k \in DOMAIN weeklyData : weeklyData[k].hasActionsUsage}
    IN  [present |-> TRUE,
         totalPRs |-> totals.totalPRs,
         totalCopilotPRs |-> totals.totalCopilotPRs,
         totalCopilotReviewPRs |-> totals.totalCopilotReviewPRs,
         totalCopilotAgentPRs |-> totals.totalCopilotAgentPRs,
         totalDependabotPRs |-> totals.totalDependabotPRs,
         totalRepositories |-> totals.totalRepositories,
         totalActionsMinutes |-> SumWeekMinutes(weeklyData, withUsage),
         totalActionsRuns |-> SumWeekRuns(weeklyData, withUsage),
         weeklyAnalysis |-> [k \in DOMAIN weeklyData |-> FinalWeek(weeklyData[k])]]

\* the head of the loop over the repositories: the report after the last
\* one, the error shouldSkipRepositoryByOrg raised (nothing catches it), the
\* next one for a skipped repository, else its pull requests
EnterRepo ==
    /\ an.pc = "repo"
    /\ pc = "idle"
    /\ listing.pc = "idle"
    /\ IF an.ri > Len(an.repositories)
       THEN /\ an' = [an EXCEPT !.pc = "done", !.report = FinalReport]
            /\ UNCHANGED <<rvars, listing>>
       ELSE IF ShouldSkipRepositoryByOrg(CurRepo.full_name, an.skippedOrgs).raised
       THEN /\ an' = [an EXCEPT !.pc = "raised", !.error = TypeError]
            /\ UNCHANGED <<rvars, listing>>
       ELSE IF \/ ShouldSkipRepositoryByOrg(CurRepo.full_name, an.skippedOrgs).value
               \/ ShouldSkipRepository(CurRepo)
       THEN /\ an' = [an EXCEPT !.ri = @ + 1]
            /\ UNCHANGED <<rvars, listing>>
       ELSE /\ an' = [an EXCEPT !.pc = "pulls"]
            /\ ListPulls(CurRepo.full_name, an.since)
    /\ UNCHANGED <<clock, ticks, nreq>>
    /\ UNCHANGED <<fvars, dvars, weeklyData, totals>>

\* getRepositoryPullRequests returned the pull requests, or raised with
\* nothing to catch the error
PullsListedRaises ==
    /\ an.pc = "pulls"
    /\ listing.fetcher = "getRepositoryPullRequests"
    /\ listing.pc \in {"returned", "raised"}
    /\ IF listing.pc = "returned"
       THEN /\ an' = [an EXCEPT !.pc = "pr", !.pulls = listing.items, !.pi = 1]
            /\ totals' =
                  IF Len(listing.items) > 0
                  THEN [totals EXCEPT !.totalRepositories = @ + 1,
                                      !.repositoryNames = @ \cup {MaskedRepoName}]
                  ELSE totals
       ELSE /\ an' = [an EXCEPT !.pc = "raised", !.error = listing.error]
            /\ totals' = totals
    /\ ListingReturn
    /\ UNCHANGED <<cvars, fvars, dvars, weeklyData>>

\* getRepositoryPullRequests returned the pull requests, or raised: the
\* catch of the loop body goes on to the next repository
PullsListed ==
    /\ an.pc = "pulls"
    /\ listing.fetcher = "getRepositoryPullRequests"
    /\ listing.pc \in {"returned", "raised"}
    /\ IF listing.pc = "returned"
       THEN /\ an' = [an EXCEPT !.pc = "pr", !.pulls = listing.items, !.pi = 1]
            /\ totals' =
                  IF Len(listing.items) > 0
                  THEN [totals EXCEPT !.totalRepositories = @ + 1,
                                      !.repositoryNames = @ \cup {MaskedRepoName}]
                  ELSE totals
       ELSE /\ an' = [an EXCEPT !.pc = "repo", !.ri = @ + 1,
                                 !.error = listing.error]
            /\ totals' = totals
    /\ ListingReturn
    /\ UNCHANGED <<cvars, fvars, dvars, weeklyData>>

\* this.owner is the author or an assignee of the PR
OwnerIsAuthorOrAssignee(p) ==
    \/ p.author = Owner
    \/ \E i \in DOMAIN p.assignees : p.assignees[i] = Owner

\* the PR enters its week: the bucket, totalPRs, author and assignees
FoldedWeeks(wd, p, weekKey) ==
    [WithBucket(wd, weekKey) EXCEPT
        ![weekKey].totalPRs = @ + 1,
        ![weekKey].collaborators = @ \cup ({p.author} \ {""}) \cup Names(p.assignees)]

FoldedTotals(t, p) ==
    [t EXCEPT !.totalPRs = @ + 1,
              !.allCollaborators = @ \cup ({p.author} \ {""}) \cup Names(p.assignees)]

PRWeekKey(p) == GetWeekKey(DateParse(p.created_at))

\* the head of the loop over the pull requests, with a Dependabot PR counted
\* and then analysed like every other
NextPullRequestCountsDependabot ==
    /\ an.pc = "pr"
    /\ pc = "idle"
    /\ IF an.pi > Len(an.pulls)
       THEN /\ an' = [an EXCEPT !.pc = "actions"]
            /\ UNCHANGED <<weeklyData, totals>>
       ELSE IF OwnerIsAuthorOrAssignee(CurPR)
       THEN /\ weeklyData' = FoldedWeeks(weeklyData, CurPR, PRWeekKey(CurPR))
            /\ totals' =
                  [FoldedTotals(totals, CurPR) EXCEPT
                      !.totalDependabotPRs =
                          IF DetectDependabotPR(CurPR) THEN @ + 1 ELSE @]
            /\ an' = [an EXCEPT !.pc = "collab", !.weekKey = PRWeekKey(CurPR)]
       ELSE /\ an' = [an EXCEPT !.pc = "involved"]
            /\ totals' =
                  [totals EXCEPT
                      !.totalDependabotPRs =
                          IF DetectDependabotPR(CurPR) THEN @ + 1 ELSE @]
            /\ UNCHANGED weeklyData
    /\ UNCHANGED <<cvars, fvars, dvars, listing>>

\* the head of the loop over the pull requests, up to the next await: the
\* actions analysis after the last PR; a Dependabot PR is counted and
\* skipped; a PR of the owner enters its week; for another PR the reviews
\* are fetched first
NextPullRequest ==
    /\ an.pc = "pr"
    /\ pc = "idle"
    /\ IF an.pi > Len(an.pulls)
       THEN /\ an' = [an EXCEPT !.pc = "actions"]
            /\ UNCHANGED <<weeklyData, totals>>
       ELSE IF DetectDependabotPR(CurPR)
       THEN /\ totals' = [totals EXCEPT !.totalDependabotPRs = @ + 1]
            /\ an' = [an EXCEPT !.pi = @ + 1]
            /\ UNCHANGED weeklyData
       ELSE IF OwnerIsAuthorOrAssignee(CurPR)
       THEN /\ weeklyData' = FoldedWeeks(weeklyData, CurPR, PRWeekKey(CurPR))
            /\ totals' = FoldedTotals(totals, CurPR)
            /\ an' = [an EXCEPT !.pc = "collab", !.weekKey = PRWeekKey(CurPR)]
       ELSE /\ an' = [an EXCEPT !.pc = "involved"]
            /\ UNCHANGED <<weeklyData, totals>>
    /\ UNCHANGED <<cvars, fvars, dvars, listing>>

\* the fetcher a stage awaits
FetchStages == {"involved", "collab", "commits", "files", "record", "jobs"}
StageFetcher(stage) ==
    CASE stage \in {"involved", "collab", "record"} -> "getPRReviews"
      [] stage = "commits" -> "getPRCommits"
      [] stage = "files" -> "getPRFiles"
      [] OTHER -> "getWorkflowRunJobs"

\* the fetcher of the stage is called
AnalysisFetch ==
    /\ an.pc \in FetchStages
    /\ ~an.awaiting
    /\ IF an.pc = "jobs"
       THEN Fetch("getWorkflowRunJobs", CurRepo.full_name, an.runs[an.runIdx].id)
       ELSE Fetch(StageFetcher(an.pc), CurPR.repo, CurPR.number)
    /\ an' = [an EXCEPT !.awaiting = TRUE]
    /\ UNCHANGED <<clock, ticks, nreq>>
    /\ UNCHANGED <<dvars, listing, weeklyData, totals>>

\* the reviews of the involvement check are there, and the PR is taken as
\* one of the owner whoever reviewed it
InvolvementFetchedAlways ==
    /\ an.pc = "involved"
    /\ an.awaiting
    /\ pc \in {"returned", "thrown"}
    /\ weeklyData' = FoldedWeeks(weeklyData, CurPR, PRWeekKey(CurPR))
    /\ totals' = FoldedTotals(totals, CurPR)
    /\ an' = [an EXCEPT !.pc = "collab", !.awaiting = FALSE,
                        !.weekKey = PRWeekKey(CurPR)]
    /\ ReleaseRequest
    /\ UNCHANGED <<clock, ticks, nreq>>
    /\ UNCHANGED <<fvars, dvars, listing>>

\* the reviews of the involvement check are there
InvolvementFetched ==
    /\ an.pc = "involved"
    /\ an.awaiting
    /\ pc \in {"returned", "thrown"}
    /\ LET reviews == Elements(FetcherResult("getPRReviews"))
           isUserInvolved == \E i \in DOMAIN reviews : reviews[i].login = Owner
       IN  IF isUserInvolved
           THEN /\ weeklyData' = FoldedWeeks(weeklyData, CurPR, PRWeekKey(CurPR))
                /\ totals' = FoldedTotals(totals, CurPR)
                /\ an' = [an EXCEPT !.pc = "collab", !.awaiting = FALSE,
                                    !.weekKey = PRWeekKey(CurPR)]
           ELSE /\ an' = [an EXCEPT !.pc = "pr", !.awaiting = FALSE, !.pi = @ + 1]
                /\ UNCHANGED <<weeklyData, totals>>
    /\ ReleaseRequest
    /\ UNCHANGED <<clock, ticks, nreq>>
    /\ UNCHANGED <<fvars, dvars, listing>>

\* the reviews are there: the reviewers join the collaborators, the
\* repository joins the week
CollaboratorsFetched ==
    /\ an.pc = "collab"
    /\ an.awaiting
    /\ pc \in {"returned", "thrown"}
    /\ LET reviews == Elements(FetcherResult("getPRReviews"))
       IN  /\ totals' = [totals EXCEPT !.allCollaborators = @ \cup Logins(reviews)]
           /\ weeklyData' =
                 [weeklyData EXCEPT
                     ![an.weekKey].collaborators = @ \cup Logins(reviews),
                     ![an.weekKey].repositories = @ \cup {MaskedRepoName}]
    /\ an' = [an EXCEPT !.pc = "classify", !.awaiting = FALSE]
    /\ ReleaseRequest
    /\ UNCHANGED <<clock, ticks, nreq>>
    /\ UNCHANGED <<fvars, dvars, listing>>

\* detectCopilotCollaboration(pr) is called
Classify ==
    /\ an.pc = "classify"
    /\ Detect(CurPR)
    /\ an' = [an EXCEPT !.pc = "detect"]
    /\ UNCHANGED <<listing, weeklyData, totals>>

\* the category counted in both counts
ClassifiedCountsBoth ==
    /\ an.pc = "detect"
    /\ dpc = "done"
    /\ LET copilotType == category
           copilotAssisted == copilotType \in {"review", "agent"}
           k == an.weekKey
       IN  /\ weeklyData' =
                 IF copilotAssisted
                 THEN [weeklyData EXCEPT ![k].copilotReviewPRs = @ + 1,
                                         ![k].copilotAgentPRs = @ + 1,
                                         ![k].copilotAssistedPRs = @ + 1]
                 ELSE weeklyData
           /\ totals' =
                 IF copilotAssisted
                 THEN [totals EXCEPT !.totalCopilotReviewPRs = @ + 1,
                                     !.totalCopilotAgentPRs = @ + 1,
                                     !.totalCopilotPRs = @ + 1]
                 ELSE totals
           /\ an' = [an EXCEPT !.pc = IF copilotAssisted THEN "commits" ELSE "files",
                               !.copilotType = copilotType,
                               !.copilotAssisted = copilotAssisted]
    /\ DetectReturn
    /\ UNCHANGED listing

\* the category is there: the counts of the week and the totals
Classified ==
    /\ an.pc = "detect"
    /\ dpc = "done"
    /\ LET copilotType == category
           copilotAssisted == copilotType \in {"review", "agent"}
           k == an.weekKey
       IN  /\ weeklyData' =
                 IF copilotType = "review"
                 THEN [weeklyData EXCEPT ![k].copilotReviewPRs = @ + 1,
                                         ![k].copilotAssistedPRs = @ + 1]
                 ELSE IF copilotType = "agent"
                 THEN [weeklyData EXCEPT ![k].copilotAgentPRs = @ + 1,
                                         ![k].copilotAssistedPRs = @ + 1]
                 ELSE weeklyData
           /\ totals' =
                 IF copilotType = "review"
                 THEN [totals EXCEPT !.totalCopilotReviewPRs = @ + 1,
                                     !.totalCopilotPRs = @ + 1]
                 ELSE IF copilotType = "agent"
                 THEN [totals EXCEPT !.totalCopilotAgentPRs = @ + 1,
                                     !.totalCopilotPRs = @ + 1]
                 ELSE totals
           /\ an' = [an EXCEPT !.pc = IF copilotAssisted THEN "commits" ELSE "files",
                               !.copilotType = copilotType,
                               !.copilotAssisted = copilotAssisted]
    /\ DetectReturn
    /\ UNCHANGED listing

\* commitCounts after the try around analyzeCommitCounts(commits): <<>> is
\* null.  A string is visited character by character, each a commit with no
\* fields; for...of over another value raises.
CommitCountsOf(commits) ==
    CASE commits.kind = "array" -> <<AnalyzeCommitCounts(commits.items)>>
      [] commits.kind = "string" ->
             <<[totalCommits |-> Len(commits.str), userCommits |-> Len(commits.str),
                copilotCommits |-> 0]>>
      [] OTHER -> <<>>

\* lineChanges after the try around analyzeLineChanges(files)
LineChangesOf(files) ==
    CASE files.kind = "array" -> <<AnalyzeLineChanges(files.items)>>
      [] files.kind = "string" ->
             <<[additions |-> 0, deletions |-> 0, changes |-> 0,
                filesChanged |-> Len(files.str)]>>
      [] OTHER -> <<>>

\* the commits are there: the commit counts of an assisted PR
CommitsCounted ==
    /\ an.pc = "commits"
    /\ an.awaiting
    /\ pc \in {"returned", "thrown"}
    /\ an' = [an EXCEPT
                 !.pc = "files", !.awaiting = FALSE,
                 !.commitCounts = CommitCountsOf(FetcherResult("getPRCommits"))]
    /\ ReleaseRequest
    /\ UNCHANGED <<clock, ticks, nreq>>
    /\ UNCHANGED <<fvars, dvars, listing, weeklyData, totals>>

\* the files are there: the line changes
LinesAnalyzed ==
    /\ an.pc = "files"
    /\ an.awaiting
    /\ pc \in {"returned", "thrown"}
    /\ an' = [an EXCEPT
                 !.pc = "record", !.awaiting = FALSE,
                 !.lineChanges = LineChangesOf(FetcherResult("getPRFiles"))]
    /\ ReleaseRequest
    /\ UNCHANGED <<clock, ticks, nreq>>
    /\ UNCHANGED <<fvars, dvars, listing, weeklyData, totals>>

\* the record of a PR; author is pr.user.login, undefined for a user without
\* login, and 'unknown' without pr.user; collaborators is the list without
\* null, undefined and ''
PRDetails(p, reviews) ==
    [number |-> p.number,
     title |-> p.title,
     author |-> IF ~p.user THEN JStr("unknown")
                ELSE IF p.author = "" THEN JUndefined ELSE JStr(p.author),
     repository |-> MaskedRepoName,
     createdAt |-> p.created_at,
     copilotAssisted |-> an.copilotAssisted,
     copilotType |-> an.copilotType,
     dependabotPr |-> FALSE,
     collaborators |-> ({p.author} \ {""}) \cup Names(p.assignees) \cup Logins(reviews),
     commitCounts |-> an.commitCounts,
     lineChanges |-> an.lineChanges]

\* the reviews are there: the record is pushed for an assisted PR only
RecordedAssistedOnly ==
    /\ an.pc = "record"
    /\ an.awaiting
    /\ pc \in {"returned", "thrown"}
    /\ LET reviews == Elements(FetcherResult("getPRReviews"))
       IN  weeklyData' =
              IF an.copilotAssisted
              THEN [weeklyData EXCEPT
                       ![an.weekKey].pullRequests = Append(@, PRDetails(CurPR, reviews))]
              ELSE weeklyData
    /\ an' = [an EXCEPT !.pc = "pr", !.awaiting = FALSE, !.pi = @ + 1,
                        !.weekKey = "", !.copilotType = "",
                        !.copilotAssisted = FALSE, !.commitCounts = <<>>,
                        !.lineChanges = <<>>]
    /\ ReleaseRequest
    /\ UNCHANGED <<clock, ticks, nreq>>
    /\ UNCHANGED <<fvars, dvars, listing, totals>>

\* the reviews are there: the record is pushed and the loop goes on
Recorded ==
    /\ an.pc = "record"
    /\ an.awaiting
    /\ pc \in {"returned", "thrown"}
    /\ LET reviews == Elements(FetcherResult("getPRReviews"))
       IN  weeklyData' =
              [weeklyData EXCEPT
                  ![an.weekKey].pullRequests = Append(@, PRDetails(CurPR, reviews))]
    /\ an' = [an EXCEPT !.pc = "pr", !.awaiting = FALSE, !.pi = @ + 1,
                        !.weekKey = "", !.copilotType = "",
                        !.copilotAssisted = FALSE, !.commitCounts = <<>>,
                        !.lineChanges = <<>>]
    /\ ReleaseRequest
    /\ UNCHANGED <<clock, ticks, nreq>>
    /\ UNCHANGED <<fvars, dvars, listing, totals>>

\* analyzeActionsUsage(repoFullName, since) is called after the last PR
StartActions ==
    /\ an.pc = "actions"
    /\ ListRuns(CurRepo.full_name, an.since)
    /\ an' = [an EXCEPT !.pc = "runs"]
    /\ UNCHANGED <<clock, ticks, nreq>>
    /\ UNCHANGED <<fvars, dvars, weeklyData, totals>>

\* workflowRuns.filter(run => this.isCopilotTriggeredRun(run))
CopilotRuns(workflowRuns) == SelectSeq(workflowRuns, IsCopilotTriggeredRun)

\* the workflow runs are listed: the Copilot-triggered ones are kept
RunsListed ==
    /\ an.pc = "runs"
    /\ listing.fetcher = "getRepositoryWorkflowRuns"
    /\ listing.pc = "returned"
    /\ an' = [an EXCEPT
                 !.pc = IF Len(CopilotRuns(listing.items)) > 0 THEN "jobs"
                        ELSE "usage",
                 !.runs = CopilotRuns(listing.items), !.runIdx = 1,
                 !.usage = NoUsage]
    /\ ListingReturn
    /\ UNCHANGED <<cvars, fvars, dvars, weeklyData, totals>>

\* an entry of runDetails
RunDetail(run, runMinutes) ==
    [id |-> run.id, name |-> run.name, actor |-> run.actor,
     triggeringActor |-> run.triggering_actor, createdAt |-> run.created_at,
     minutes |-> runMinutes]

\* the jobs of a run are there: its minutes.  Reading jobs of a null
\* response raises, and the catch around analyzeActionsUsage goes on to the
\* next repository.
JobsFetched ==
    /\ an.pc = "jobs"
    /\ an.awaiting
    /\ pc \in {"returned", "thrown"}
    /\ LET jobsResponse == FetcherResult("getWorkflowRunJobs")
           jobs == IF jobsResponse.kind = "object" THEN jobsResponse.items ELSE <<>>
           run == an.runs[an.runIdx]
           runMinutes == CalculateActionMinutes(jobs)
       IN  IF jobsResponse.kind \in {"null", "undefined"}
           THEN an' = [an EXCEPT !.pc = "repo", !.awaiting = FALSE, !.ri = @ + 1,
                                 !.runs = <<>>, !.runIdx = 0, !.usage = NoUsage]
           ELSE an' = [an EXCEPT
                          !.pc = IF an.runIdx = Len(an.runs) THEN "usage" ELSE "jobs",
                          !.awaiting = FALSE,
                          !.runIdx = @ + 1,
                          !.usage = [totalMinutes |-> JSAdd(@.totalMinutes, runMinutes),
                                     totalRuns |-> @.totalRuns + 1,
                                     runDetails |->
                                         Append(@.runDetails,
                                                RunDetail(run, runMinutes))]]
    /\ ReleaseRequest
    /\ UNCHANGED <<clock, ticks, nreq>>
    /\ UNCHANGED <<fvars, dvars, listing, weeklyData, totals>>

\* the bucket of a run's week: created with an actionsUsage, or given one
WithUsageBucket(wd, weekKey) ==
    LET w == WithBucket(wd, weekKey)
    IN  [w EXCEPT ![weekKey].hasActionsUsage = TRUE]

\* the loop over actionsUsage.runDetails from entry i on, a week receiving
\* only the minutes of its first run
RECURSIVE FoldRunsFirstMinutes(_, _, _, _)
FoldRunsFirstMinutes(wd, runDetails, i, maskedRepoName) ==
    IF i > Len(runDetails) THEN wd
    ELSE LET runDetail == runDetails[i]
             runWeekKey == GetWeekKey(DateParse(runDetail.createdAt))
             w == WithUsageBucket(wd, runWeekKey)
         IN  FoldRunsFirstMinutes(
                 [w EXCEPT
                     ![runWeekKey].actionsUsage =
                         [totalMinutes |-> IF @.totalRuns = 0
                                           THEN runDetail.minutes ELSE @.totalMinutes,
                          totalRuns |-> @.totalRuns + 1,
                          runDetails |->
                              Append(@.runDetails,
                                     [run |-> runDetail,
                                      repository |-> maskedRepoName])]],
                 runDetails, i + 1, maskedRepoName)

\* the loop over actionsUsage.runDetails from entry i on
RECURSIVE FoldRuns(_, _, _, _)
FoldRuns(wd, runDetails, i, maskedRepoName) ==
    IF i > Len(runDetails) THEN wd
    ELSE LET runDetail == runDetails[i]
             runWeekKey == GetWeekKey(DateParse(runDetail.createdAt))
             w == WithUsageBucket(wd, runWeekKey)
         IN  FoldRuns(
                 [w EXCEPT
                     ![runWeekKey].actionsUsage =
                         [totalMinutes |-> JSAdd(@.totalMinutes, runDetail.minutes),
                          totalRuns |-> @.totalRuns + 1,
                          runDetails |->
                              Append(@.runDetails,
                                     [run |-> runDetail,
                                      repository |-> maskedRepoName])]],
                 runDetails, i + 1, maskedRepoName)

\* analyzeActionsUsage has returned: the runs enter their weeks, and the
\* loop goes on to the next repository
UsageFolded ==
    /\ an.pc = "usage"
    /\ pc = "idle"
    /\ weeklyData' =
          IF an.usage.totalRuns > 0
          THEN FoldRuns(weeklyData, an.usage.runDetails, 1, MaskedRepoName)
          ELSE weeklyData
    /\ an' = [an EXCEPT !.pc = "repo", !.ri = @ + 1, !.runs = <<>>,
                        !.runIdx = 0, !.usage = NoUsage, !.pulls = <<>>,
                        !.pi = 0]
    /\ UNCHANGED <<cvars, fvars, dvars, listing, totals>>

\* ------------------------------------------------------------------------
\* analyzePullRequests(): the runs of the analysis, over one or all
\* repositories of the owner, with the API answering or failing.
TestRepo == Owner \o "/test_repo"

AnalyzedRepos ==
    {JArr(<<Repo("acme/tool", FALSE, FALSE, FALSE),
            Repo("test_owner/old", TRUE, FALSE, FALSE),
            Repo(TestRepo, FALSE, FALSE, TRUE)>>),
     JArr(<<Repo("constructor/x", FALSE, FALSE, FALSE)>>),
     JNull}

\* the calls: one repository, all repositories in CI with an organization
\* skipped, all repositories
AnalyzeArgs ==
    {[repo |-> "test_repo", ci |-> FALSE, skippedOrgs |-> SkipConfig({}, NoOrgs)],
     [repo |-> "", ci |-> TRUE,
      skippedOrgs |-> SkipConfig({"acme"}, "acme" :> {"tool"}
                                           @@ "test_owner" :> {"test_repo"})],
     [repo |-> "", ci |-> FALSE, skippedOrgs |-> SkipConfig({}, "acme" :> {"other"})],
     [repo |-> "", ci |-> FALSE, skippedOrgs |-> SkipConfig({}, NoOrgs)]}

AnalyzedPR(repo, number, author, assignees, title, body, createdAt) ==
    PullRequestIn(repo, number, author, assignees, title, body, createdAt)

\* the pull requests a repository lists
AnalyzedPulls(repo) ==
    IF repo # TestRepo
    THEN {JArr(<<>>),
          JArr(<<AnalyzedPR(repo, 1, Owner, <<>>, "Test PR", "Test body", InWindow)>>)}
    ELSE
    {JArr(<<>>),
     JArr(<<AnalyzedPR(repo, 1, "dependabot[bot]", <<>>, "Bump lodash from 1 to 2",
                       "", InWindow),
            AnalyzedPR(repo, 2, Owner, <<>>, "Fix parser",
                       "Used GitHub Copilot suggestions", InWindow)>>),
     JArr(<<AnalyzedPR(repo, 3, "octocat", <<>>, "Test PR", "Test body", InWindow),
            AnalyzedPR(repo, 4, "Copilot", <<Owner>>, "Add feature", "", AtSince)>>),
     JArr(<<AnalyzedPR(repo, 5, Owner, <<Owner>>, "Update docs", "", InWindow),
            AnalyzedPR(repo, 6, "octocat", <<"octocat">>, "Refactor", "", TooOld),
            AnalyzedPR(repo, 7, "", <<"", Owner>>, "Test PR", "", InWindow)>>),
     JArr(<<WithoutUser(AnalyzedPR(repo, 6, "", <<Owner>>, "Test PR", "",
                                   InWindow))>>)}

\* the reviews, commits and files of a PR, the workflow runs of a
\* repository and the jobs of a run
AnalyzedReviews(repo) ==
    IF repo # TestRepo THEN {JArr(<<Review("octocat")>>)}
    ELSE {JArr(<<>>),
          JArr(<<Review(Owner)>>),
          JArr(<<Review("octocat"), Review("copilot-pull-request-reviewer[bot]")>>)}

AnalyzedCommits(repo) ==
    IF repo # TestRepo THEN {JArr(<<Commit("Fix typo")>>)}
    ELSE {JArr(<<Commit("Fix typo")>>),
          JArr(<<Commit("Initial plan Co-authored-by: Copilot <copilot@github.com>")>>),
          JArr(<<Commit("Address Copilot review feedback")>>)}

AnalyzedFiles(repo) ==
    IF repo # TestRepo THEN {JArr(<<>>)}
    ELSE {JArr(<<File(3, 1, 4)>>), JNull}

AnalyzedRuns(repo) ==
    IF repo # TestRepo THEN {JObj(<<>>)}
    ELSE {JObj(<<>>),
          JObj(<<RunAt(7, "2024-01-03T08:00:00Z", "Copilot", "", "CI", "Normal PR", ""),
                 RunAt(8, InWindow, "octocat", "octocat", "CI", "Normal PR", ""),
                 RunAt(9, "2024-01-04T08:00:00Z", "Copilot", "", "CI", "Normal PR", "")>>),
          JNull}

AnalyzedJobs ==
    {JObj(<<Job("2024-01-01T10:00:00Z", "2024-01-01T10:02:30Z")>>), JNull}

AnalysisErrors == {HttpError(404), HttpError(500), HttpError(403)}

AnalyzedRepoNames == {TestRepo, "acme/tool"}
AnalysisKeys ==
    {ReposKey(Owner, k) : k \in 1..2}
    \cup {PullsKey(r, Since, 1) : r \in AnalyzedRepoNames}
    \cup {RunsKey(r, Since, k) : r \in AnalyzedRepoNames, k \in 1..2}
    \cup {FetcherKey(who, r, n) : who \in ListFetchers, r \in AnalyzedRepoNames,
                                  n \in 1..7}
    \cup {JobsKey(r, n) : r \in AnalyzedRepoNames, n \in {7, 9}}

InitAnalyze ==
    /\ InitClientOver(AnalysisKeys)
    /\ InitNoCall
    /\ InitNoDetection
    /\ InitNoAnalysis

AnalyzeCall ==
    \E a \in AnalyzeArgs : AnalyzeStart(a.repo, a.ci, Since)

\* skipped_orgs.txt holds one of the configurations of the call
OrganizationsLoaded ==
    \E a \in AnalyzeArgs :
        /\ a.repo = an.repo
        /\ a.ci = an.ci
        /\ SkippedOrganizationsLoaded(a.skippedOrgs)

\* what the API answers to the pending request
AnalysisBodies ==
    CASE req.who = "getUserRepositories" ->
             IF listing.page = 1 THEN AnalyzedRepos ELSE {JArr(<<>>)}
      [] req.who = "getRepositoryPullRequests" -> AnalyzedPulls(listing.repo)
      [] req.who = "getRepositoryWorkflowRuns" ->
             IF listing.page = 1 THEN AnalyzedRuns(listing.repo) ELSE {JObj(<<>>)}
      [] req.who = "getPRReviews" -> AnalyzedReviews(CurRepo.full_name)
      [] req.who = "getPRCommits" -> AnalyzedCommits(CurRepo.full_name)
      [] req.who = "getPRFiles" -> AnalyzedFiles(CurRepo.full_name)
      [] OTHER -> AnalyzedJobs

ResolveAnalyze ==
    /\ an.pc # "idle"
    /\ \E body \in AnalysisBodies : ThunkResolves(body)
    /\ UNCHANGED <<clock, ticks, nreq>>
    /\ UNCHANGED <<fvars, dvars, avars>>

\* the API fails: at any attempt while the repositories are listed, and at
\* most MaxRejections times afterwards
RejectAnalyze ==
    /\ an.pc # "idle"
    /\ an.rejections < MaxRejections \/ req.who = "getUserRepositories"
    /\ \E error \in AnalysisErrors : ThunkRejects(error)
    /\ an' = [an EXCEPT !.rejections =
                            IF req.who = "getUserRepositories" THEN @ ELSE @ + 1]
    /\ UNCHANGED <<clock, ticks, nreq>>
    /\ UNCHANGED <<fvars, dvars, listing, weeklyData, totals>>

NextAnalyze ==
    \/ AnalyzeCall \/ OrganizationsLoaded \/ ResolveAnalyze \/ RejectAnalyze
    \/ Resume \/ ReposStep \/ ReposListed \/ EnterRepo \/ PullsStep \/ PullsListed
    \/ NextPullRequest \/ AnalysisFetch \/ InvolvementFetched
    \/ CollaboratorsFetched \/ Classify \/ AfterReviews \/ AfterCommits
    \/ Classified \/ CommitsCounted \/ LinesAnalyzed \/ Recorded
    \/ StartActions \/ RunsStep \/ RunsListed \/ JobsFetched \/ UsageFolded

SpecAnalyze == InitAnalyze /\ [][NextAnalyze]_vars

\* ------------------------------------------------------------------------
\* The end of the analysis: a week of the final report, and saveResults.

\* a PR record of a week bucket
WeekPR(number, copilotType) ==
    [number |-> number, title |-> "Test PR", author |-> JStr("octocat"),
     repository |-> "o/r", createdAt |-> InWindow,
     copilotAssisted |-> copilotType # "none", copilotType |-> copilotType,
     dependabotPr |-> FALSE, collaborators |-> {"octocat"},
     commitCounts |-> IF copilotType # "none" THEN CommitCountsOf(JArr(<<>>)) ELSE <<>>,
     lineChanges |-> LineChangesOf(JArr(<<>>))]

\* the run detail of a Copilot run of 3 minutes, as folded into a week
WeekRun ==
    [run |-> RunDetail(RunAt(1, "2024-01-10T12:00:00Z", "Copilot", "", "CI",
                             "Normal PR", ""), Num(3)),
     repository |-> "o/r"]

\* the bucket of a week after total PRs were recorded, the first review of
\* them reviewed by Copilot and the next agent written by it, and after
\* the usage of one run was folded into it when hasUsage
WeekOf(total, review, agent, hasUsage) ==
    [totalPRs |-> total, copilotAssistedPRs |-> review + agent,
     copilotReviewPRs |-> review, copilotAgentPRs |-> agent,
     collaborators |-> IF total > 0 THEN {"octocat"} ELSE {},
     repositories |-> IF total > 0 THEN {"o/r"} ELSE {},
     pullRequests |->
         [i \in 1..total |->
             WeekPR(i, IF i <= review THEN "review"
                       ELSE IF i <= review + agent THEN "agent" ELSE "none")],
     hasActionsUsage |-> hasUsage,
     actionsUsage |-> IF hasUsage
                      THEN [totalMinutes |-> WeekRun.run.minutes, totalRuns |-> 1,
                            runDetails |-> <<WeekRun>>]
                      ELSE NoUsage]

WeekInputs ==
    {WeekOf(total, review, agent, hasUsage) :
        total \in 0..MaxWeekPRs, review \in 0..MaxWeekPRs,
        agent \in 0..MaxWeekPRs, hasUsage \in BOOLEAN}

\* the weeks the loop can build: the assisted PRs are among the PRs, and a
\* bucket exists for a PR or for a usage
Weeks ==
    {w \in WeekInputs :
        /\ w.copilotAssistedPRs <= w.totalPRs
        /\ w.totalPRs > 0 \/ w.hasActionsUsage}

\* str.replace(/[:.]/g, '-')
RECURSIVE DashedFrom(_, _)
DashedFrom(str, i) ==
    IF i > Len(str) THEN ""
    ELSE (IF Char(str, i) \in {":", "."} THEN "-" ELSE Char(str, i))
         \o DashedFrom(str, i + 1)

\* new Date().toISOString().replace(/[:.]/g, '-').slice(0, -5)
Timestamp(now) ==
    LET dashed == DashedFrom(ToISOString(now), 1)
    IN  SubSeq(dashed, 1, Len(dashed) - 5)

\* A call of saveResults(results, outputFormat), in progress or over:
\*   pc       "mkdir" (await fs.mkdir(), the directory not yet made),
\*            "made" (fs.mkdir() is over, the code has not resumed),
\*            "write" (await fs.writeFile() or writer.writeRecords()),
\*            "written" (the write is over, the code has not resumed),
\*            "returned", "raised"
\*   value    the file name, and in the end the file name returned or the
\*            message of the error raised
\*   io       the I/O calls in order
\*   exists   the report folder exists
\*   failure  the message of the error of the I/O call that is over
\*   created, written  the directories and files that exist and did not
\*            before the call
SaveCall(at, value, io, exists, failure, created, written) ==
    [pc |-> at, raised |-> at = "raised", value |-> value, io |-> io,
     exists |-> exists, failure |-> failure, created |-> created,
     written |-> written]

\* the error the catch of saveResults raises
SaveFailed(call, message) ==
    [call EXCEPT !.pc = "raised", !.raised = TRUE,
                 !.value = "Failed to save results: " \o message,
                 !.failure = message]

OutputFormats == {"json", "JSON", "csv", "Csv", "xml", "yaml", ""}
SaveInputs ==
    [outputFormat : OutputFormats, folder : {"reports/"},
     now : {DateParse(InWindow).n}, folderExists : BOOLEAN,
     fault : {"", "mkdir", "writeFile", "writeRecords"}]

InitReport ==
    /\ InitClient
    /\ InitNoDetection
    /\ InitNoAnalysis
    /\ fn = ""
    /\ \/ arg \in Call("finalWeek", Weeks)
       \/ arg \in Call("saveResults", SaveInputs)
    /\ out = <<>>

\* the body of the loop over the weeks, lines 1021-1044
CallFinalWeek == Apply("finalWeek", FinalWeek(arg.x))

\* saveResults is called at time arg.x.now: the timestamp, then fs.mkdir is
\* called and the call waits
CallSaveResults ==
    Apply("saveResults",
          SaveCall("mkdir", Timestamp(arg.x.now), <<"mkdir">>,
                   arg.x.folderExists, "", {}, {}))

\* a step of the call of saveResults in progress
SaveStep(from, call) ==
    /\ fn = "saveResults"
    /\ out[1].pc = from
    /\ out' = <<call>>
    /\ UNCHANGED <<fn, arg>>
    /\ UNCHANGED <<cvars, dvars, avars>>

\* fs.mkdir(REPORT_FOLDER, { recursive: true }) is over; arg.x.fault is the
\* I/O call that fails, if any
MkdirSettled ==
    SaveStep("mkdir",
        IF arg.x.fault = "mkdir"
        THEN [out[1] EXCEPT !.pc = "made",
                            !.failure = "EACCES: permission denied"]
        ELSE [out[1] EXCEPT !.pc = "made", !.exists = TRUE,
                            !.created = IF arg.x.folderExists THEN {}
                                        ELSE {arg.x.folder}])

\* the code resumes after fs.mkdir: its error is raised, or the file of the
\* format is written, or the format is unsupported
AfterMkdir ==
    LET call == out[1]
        Write(filename, io) ==
            [call EXCEPT !.pc = "write", !.value = filename,
                         !.io = Append(@, io)]
        name == arg.x.folder \o "pr_analysis_" \o call.value
    IN  SaveStep("made",
            IF call.failure # "" THEN SaveFailed(call, call.failure)
            ELSE IF ToLowerCase(arg.x.outputFormat) = "json"
            THEN Write(name \o ".json", "writeFile")
            ELSE IF ToLowerCase(arg.x.outputFormat) = "csv"
            THEN Write(name \o ".csv", "writeRecords")
            ELSE SaveFailed(call, "Unsupported output format: "
                                  \o arg.x.outputFormat))

\* fs.writeFile or writer.writeRecords is over: the file is there, unless the
\* call fails or the folder is gone
WriteSettled ==
    LET call == out[1]
    IN  SaveStep("write",
            IF arg.x.fault = call.io[Len(call.io)]
            THEN [call EXCEPT !.pc = "written",
                              !.failure = "EACCES: permission denied"]
            ELSE IF ~call.exists
            THEN [call EXCEPT !.pc = "written",
                              !.failure =
                                  "ENOENT: no such file or directory, open '"
                                  \o call.value \o "'"]
            ELSE [call EXCEPT !.pc = "written", !.written = {call.value}])

\* the code resumes after the write: the file name is returned, or the error
\* is raised
AfterWrite ==
    SaveStep("written",
        IF out[1].failure # "" THEN SaveFailed(out[1], out[1].failure)
        ELSE [out[1] EXCEPT !.pc = "returned"])

\* another callback removes the report folder, empty, while the call waits
FolderRemoved ==
    /\ fn = "saveResults"
    /\ out[1].pc \in {"mkdir", "made", "write"}
    /\ out[1].exists
    /\ out' = <<[out[1] EXCEPT !.exists = FALSE, !.created = {}]>>
    /\ UNCHANGED <<fn, arg>>
    /\ UNCHANGED <<cvars, dvars, avars>>

NextReport ==
    \/ CallFinalWeek \/ CallSaveResults \/ MkdirSettled \/ AfterMkdir
    \/ WriteSettled \/ AfterWrite \/ FolderRemoved

SpecReport == InitReport /\ [][NextReport]_vars

\* ------------------------------------------------------------------------
\* Properties of the retrying client

\* C1: a request whose every attempt fails with a retryable error invokes the
\* thunk maxRetries + 1 times, sleeps maxRetries times (once between two
\* consecutive attempts, not after the last) and raises the last error.
RetryExhaustion ==
    /\ (pc = "thrown" /\ terminalFails = 0) =>
           /\ calls = req.maxRetries + 1
           /\ sleeps = req.maxRetries
           /\ thrown = rejection
    /\ (pc \in {"awaiting", "ratelimited", "thrown"}) => sleeps = calls - 1
    /\ pc = "sleeping" => sleeps = calls

RetryExhaustionWitness ==
    /\ pc = "thrown"
    /\ terminalFails = 0
    /\ req.maxRetries = 3
    /\ calls = 4
    /\ sleeps = 3
    /\ thrown = HttpError(500)

\* C2: only a network failure or a status 429, 408, 409 or >= 500 is followed
\* by a sleep and a retry; any other failure is raised at once, unchanged,
\* with no sleep and no further attempt (a 404 on the first attempt: one
\* invocation, no sleep).
TerminalFailureRaisedAtOnce ==
    /\ pc \in {"ratelimited", "sleeping"} => RetryableFailure(rejection)
    /\ (pc = "awaiting" /\ attempt > 0) => RetryableFailure(rejection)
    /\ terminalFails > 0 =>
           /\ pc = "thrown"
           /\ thrown = rejection
           /\ ~RetryableFailure(thrown)
           /\ terminalFails = 1
           /\ calls = fails
           /\ sleeps = fails - 1
    /\ (fails = 1 /\ rejection = HttpError(404)) =>
           pc = "thrown" /\ calls = 1 /\ sleeps = 0 /\ thrown = HttpError(404)

TerminalFailureWitness ==
    /\ pc = "thrown"
    /\ req.maxRetries = 3
    /\ fails = 1
    /\ thrown = HttpError(404)
    /\ calls = 1
    /\ sleeps = 0

\* C3: a successful attempt returns its response.data at once: after k
\* retryable failures and a success the thunk was invoked k + 1 times with k
\* sleeps, and nothing but the caller's resumption follows.
SuccessReturnedAtOnce ==
    /\ [](pc = "returned" /\ calls > 0 =>
             /\ result = lastResponse.data
             /\ terminalFails = 0
             /\ fails <= req.maxRetries
             /\ calls = fails + 1
             /\ sleeps = fails)
    /\ [][pc = "returned" => pc' = "idle"]_vars

SuccessAfterRetriesWitness ==
    /\ pc = "returned"
    /\ fails = 2
    /\ calls = 3
    /\ sleeps = 2
    /\ result = JArr(<<Review("octocat")>>)

\* C4: a request whose key holds an unexpired cached value returns that value
\* without invoking the thunk and without sleeping.
CachedValueShortCircuits ==
    (/\ req.useCache
     /\ req.cacheKey # ""
     /\ lookup.key = req.cacheKey
     /\ ~(pc = "returned" /\ calls > 0)
     /\ stored[req.cacheKey].present
     /\ lookup.at - stored[req.cacheKey].at < 20 * 60 * 60 * 1000)
    => /\ pc = "returned"
       /\ result = stored[req.cacheKey].v
       /\ calls = 0
       /\ sleeps = 0

\* C5: every cache entry holds a body served by a successful attempt under
\* that very key; only a successful attempt (under its lookup key) writes an
\* entry, and a failing attempt leaves the cache as it is.
CacheHoldsServedBodies ==
    /\ [](\A k \in AllKeys : cache[k].present => cache[k].v \in served[k])
    /\ []((pc = "returned" /\ calls > 0 /\ req.useCache /\ req.cacheKey # "") =>
             /\ lookup.key = req.cacheKey
             /\ cache[lookup.key].present
             /\ cache[lookup.key].v = result)
    /\ [][\A k \in AllKeys :
             (cache'[k].present /\ cache'[k] # cache[k]) =>
                 /\ pc = "awaiting" /\ pc' = "returned"
                 /\ k = lookup.key
                 /\ cache'[k].v = lastResponse'.data]_vars
    /\ [][(pc = "awaiting" /\ pc' \in {"ratelimited", "sleeping", "thrown"}) =>
             cache' = cache]_vars

CacheHoldsServedBodiesWitness ==
    /\ pc = "thrown"
    /\ req.cacheKey = "commits_o/r_1"
    /\ req.useCache
    /\ fails = 2
    /\ ~cache["commits_o/r_1"].present
    /\ cache["reviews_o/r_1"].present
    /\ cache["reviews_o/r_1"].v = JNull

\* C6: a lookup made less than 20 hours after the value was stored under the
\* key finds exactly that value; a lookup made more than 20 hours after it was
\* stored finds nothing, whether or not the entry was read in between.
CacheRoundTrip ==
    (/\ lookup.key # ""
     /\ \/ pc = "returned" /\ calls = 0
        \/ pc = "awaiting" /\ calls = 1 /\ fails = 0)
    => LET s == stored[lookup.key]
           elapsed == lookup.at - s.at
       IN  /\ (s.present /\ elapsed < 20 * 60 * 60 * 1000) => lookup.value = s.v
           /\ (s.present /\ elapsed > 20 * 60 * 60 * 1000) => lookup.value = JUndefined
           /\ ~s.present => lookup.value = JUndefined

CacheRoundTripWitness ==
    /\ pc = "awaiting"
    /\ calls = 1
    /\ fails = 0
    /\ lookup.key = "reviews_o/r_1"
    /\ stored["reviews_o/r_1"].present
    /\ stored["reviews_o/r_1"].v = JArr(<<Review("octocat")>>)
    /\ lookup.at - stored["reviews_o/r_1"].at > 20 * 60 * 60 * 1000
    /\ lookup.value = JUndefined
    /\ nreq = 3

\* the header reads as an integer: white space, an optional sign, then
\* decimal digits only
IsIntegerString(s) ==
    LET i0 == SkipSpaces(s, 1)
        j == IF i0 <= Len(s) /\ Char(s, i0) \in {"+", "-"} THEN i0 + 1 ELSE i0
    IN  j <= Len(s) /\ \A i \in j..Len(s) : IsDigit(Char(s, i))

\* the wait the rate-limit rule prescribes, in ms, for integer headers
PrescribedWait(e, nowMs) ==
    LET now == nowMs \div 1000
    IN  IF IsIntegerString(e.reset) /\ ParseInt(e.reset).n > 0
        THEN Min((Max(0, ParseInt(e.reset).n - now) + 1) * 1000, 300 * 1000)
        ELSE IF e.retryAfter # ""
        THEN Min(ParseInt(e.retryAfter).n * 1000, 300 * 1000)
        ELSE 60 * 1000

\* C7: the wait is min(max(0, reset - now) + 1, 300) seconds when a reset
\* header > 0 is present (whatever retry-after says), else min(retry-after,
\* 300) seconds when retry-after is present, else 60 seconds.
RateLimitWaitRule ==
    fn = "_handleRateLimit" =>
        LET e == arg.error
        IN  /\ (e.retryAfter = "" \/ IsIntegerString(e.retryAfter)
                  \/ (IsIntegerString(e.reset) /\ ParseInt(e.reset).n > 0)) =>
                   out = <<Num(PrescribedWait(e, arg.now))>>
            /\ (e.reset = "" /\ e.retryAfter = "30") => out = <<Num(30000)>>
            /\ (e.reset = "100600" /\ arg.now \div 1000 = 100000) =>
                   out = <<Num(300000)>>
            /\ (e.reset = "" /\ e.retryAfter = "") => out = <<Num(60000)>>

RateLimitWaitWitness ==
    /\ fn = "_handleRateLimit"
    /\ arg.error = RateLimited("100060", "600")
    /\ arg.now = 100000999
    /\ out = <<Num(61000)>>

\* C8: after a 429 the delay slept is the rate-limit wait, without jitter and
\* whatever the attempt; after any other retryable failure of attempt a it
\* lies in [B, 1.1 * B] with B = min(1000 * 2^a, 30000).
RetryDelayByFailureKind ==
    pc = "sleeping" =>
        /\ ~sleepMs.nan
        /\ IF rejection.response /\ rejection.status = 429
           THEN sleepMs.n = PrescribedWait(rejection, sleepAt)
           ELSE LET B == Min(1000 * Pow2(attempt), 30000)
                IN  /\ B <= sleepMs.n
                    /\ 10 * sleepMs.n <= 11 * B
                    /\ B <= 30000

RetryDelayCappedWitness ==
    /\ pc = "sleeping"
    /\ attempt = 5
    /\ rejection = HttpError(503)
    /\ sleepMs = Num(32999)

\* ------------------------------------------------------------------------
\* Properties of the classifier

\* the login is the bot name 'copilot', case-insensitively
IsBotName(login) == ToLowerCase(login) = "copilot"

AuthoredByOrAssignedToBot(p) ==
    IsBotName(p.author) \/ \E i \in DOMAIN p.assignees : IsBotName(p.assignees[i])

\* C9: a PR whose author or one of whose assignees is 'copilot' (in any case)
\* is classified 'agent' whatever its title and body, and no review or commit
\* fetch is issued for it.
BotAuthorIsAgentWithoutFetch ==
    /\ (dpc = "done" /\ AuthoredByOrAssignedToBot(pr)) =>
           /\ category = "agent"
           /\ fetches = 0
           /\ reviewsGot = <<>>
           /\ commitsGot = <<>>
    /\ dpc \in {"reviews", "commits"} => ~AuthoredByOrAssignedToBot(pr)
    /\ fetches > 0 => ~AuthoredByOrAssignedToBot(pr)

BotAssigneeWitness ==
    /\ dpc = "done"
    /\ pr.author = "octocat"
    /\ pr.assignees = <<"octocat", "COPILOT">>
    /\ pr.title = "Test PR"
    /\ category = "agent"
    /\ fetches = 0
    /\ cache[ReviewsKey(pr.repo, pr.number)].present

\* the reviewer login is a review signal
ReviewerSignal(login) ==
    LET l == ToLowerCase(login)
    IN  \/ l = "copilot-pull-request-reviewer[bot]"
        \/ l = "copilot"
        \/ Includes(l, "copilot") /\ Includes(l, "review")

\* C10: for a PR not authored by or assigned to the bot, a reviewer whose
\* login is a review signal makes the PR 'review' before any commit is
\* fetched, whatever the title and body; the reviewer 'copilot-assistant'
\* alone, with no commit and no keyword signal, leaves the PR 'none'.
ReviewerDecidesReview ==
    (dpc = "done" /\ ~AuthoredByOrAssignedToBot(pr)) =>
        /\ (\E i \in DOMAIN reviewsGot : ReviewerSignal(reviewsGot[i].login)) =>
               /\ category = "review"
               /\ fetches = 1
               /\ commitsGot = <<>>
        /\ (/\ reviewsGot = <<Review("copilot-assistant")>>
            /\ \A i \in DOMAIN commitsGot :
                   ~Includes(ToLowerCase(commitsGot[i].message), "copilot")
            /\ pr.title = "Test PR"
            /\ pr.body = "Test body") => category = "none"

ReviewerDecidesWitness ==
    /\ dpc = "done"
    /\ pr.author = "octocat"
    /\ pr.title = "AI-assisted refactoring"
    /\ reviewsGot = <<Review("octocat"), Review("Copilot-Code-Reviewer")>>
    /\ category = "review"
    /\ fetches = 1

\* the PR shows no signal at any of the five stages
NoSignal(p, reviews, commits) ==
    /\ ~AuthoredByOrAssignedToBot(p)
    /\ \A i \in DOMAIN reviews : ~ReviewerSignal(reviews[i].login)
    /\ \A i \in DOMAIN commits : ~Includes(ToLowerCase(commits[i].message), "copilot")
    /\ \A k \in {"copilot", "co-pilot", "github copilot", "ai-assisted", "ai assisted"} :
           ~Includes(ToLowerCase(p.title), k) /\ ~Includes(ToLowerCase(p.body), k)

\* C11: detectCopilotCollaboration returns one of 'agent', 'review', 'none',
\* and returns 'none' for a PR without author, assignee, reviewer, commit or
\* keyword signal.
NoSignalIsNone ==
    dpc = "done" =>
        /\ category \in {"agent", "review", "none"}
        /\ NoSignal(pr, reviewsGot, commitsGot) => category = "none"

NoSignalWitness ==
    /\ dpc = "done"
    /\ category = "none"
    /\ pr.author = "octocat"
    /\ pr.assignees = <<"">>
    /\ reviewsGot = <<Review("copilot-assistant")>>
    /\ commitsGot = <<Commit("Fix typo")>>
    /\ fetches = 2

\* ------------------------------------------------------------------------
\* Properties of the synchronous classifiers and counters

\* C12: detectDependabotPR returns true exactly when the author is
\* 'dependabot' or 'dependabot[bot]' in any case, or the title contains 'bump',
\* 'update' or 'build(deps)' in any case; it issues no request and leaves the
\* cache alone.
DependabotRule ==
    fn = "detectDependabotPR" =>
        /\ out[1] =
              (\/ ToLowerCase(arg.x.author) = "dependabot"
               \/ ToLowerCase(arg.x.author) = "dependabot[bot]"
               \/ \E k \in {"bump", "update", "build(deps)"} :
                      Includes(ToLowerCase(arg.x.title), k))
        /\ pc = "idle" /\ calls = 0 /\ lookup = NoLookup
        /\ \A k \in AllKeys : ~cache[k].present

DependabotTitleWitness ==
    /\ fn = "detectDependabotPR"
    /\ arg.x.author = "human_user"
    /\ arg.x.title = "Build(Deps-dev) refresh"
    /\ out = <<FALSE>>

\* the commits of a list that count as Copilot commits
CopilotCommitIndices(commits) ==
    {i \in DOMAIN commits :
        \/ Includes(ToLowerCase(commits[i].authorName), "copilot")
        \/ Includes(ToLowerCase(commits[i].committerName), "copilot")
        \/ Includes(ToLowerCase(commits[i].message), "copilot")}

\* C16: analyzeCommitCounts counts every commit once: totalCommits is the
\* length of the list and equals userCommits + copilotCommits, copilotCommits
\* being the number of commits whose author name, committer name or message
\* contains 'copilot' in any case.
CommitCountsPartition ==
    fn = "analyzeCommitCounts" =>
        /\ out[1].totalCommits = Len(arg.x)
        /\ out[1].totalCommits = out[1].userCommits + out[1].copilotCommits
        /\ out[1].copilotCommits = Cardinality(CopilotCommitIndices(arg.x))

CommitCountsWitness ==
    /\ fn = "analyzeCommitCounts"
    /\ arg.x = <<CommitBy("octocat", "copilot-swe-agent", "Apply changes"),
                 CommitBy("", "", "")>>
    /\ out = <<[totalCommits |-> 2, userCommits |-> 1, copilotCommits |-> 1]>>

\* the duration of a job in ms, when both of its timestamps are dates
JobDurationMs(job) == 1000 * (DateParse(job.completed_at).n - DateParse(job.started_at).n)

\* the whole minutes charged for a duration: the least m with d <= 60000 m
MinutesCharged(d) == CHOOSE m \in -1500..1500 : 60000 * (m - 1) < d /\ d <= 60000 * m

RECURSIVE MinutesOwed(_, _)
MinutesOwed(jobs, i) ==
    IF i > Len(jobs) THEN 0
    ELSE (IF jobs[i].started_at # "" /\ jobs[i].completed_at # ""
          THEN MinutesCharged(JobDurationMs(jobs[i])) ELSE 0)
         + MinutesOwed(jobs, i + 1)

\* every timestamp present in the list is a date
TimestampsAreDates(jobs) ==
    \A i \in DOMAIN jobs :
        /\ jobs[i].started_at # "" => ~DateParse(jobs[i].started_at).nan
        /\ jobs[i].completed_at # "" => ~DateParse(jobs[i].completed_at).nan

\* C17: calculateActionMinutes is the sum over the jobs with a start and a
\* completion time of the job's duration rounded up to a whole minute, job by
\* job; a job that lacks a timestamp adds 0 and the empty list gives 0.
ActionMinutesPerJob ==
    (fn = "calculateActionMinutes" /\ TimestampsAreDates(arg.x)) =>
        out[1] = Num(MinutesOwed(arg.x, 1))

ActionMinutesWitness ==
    /\ fn = "calculateActionMinutes"
    /\ arg.x = <<Job("2024-01-01T10:00:00Z", "2024-01-01T10:02:30Z"),
                 Job("2024-01-01T10:00:00Z", "2024-01-01T10:02:30Z")>>
    /\ out = <<Num(6)>>

\* C18: isCopilotTriggeredRun is true exactly when the case-folded actor or
\* triggering-actor login is one of the five bot identifiers, or the
\* case-folded workflow name, display title or head-commit message contains
\* 'copilot'.
CopilotRunRule ==
    fn = "isCopilotTriggeredRun" =>
        out[1] =
           (\/ \E b \in {"copilot", "copilot-swe-agent", "github-copilot[bot]",
                         "copilot[bot]", "copilot-pull-request-reviewer[bot]"} :
                   \/ ToLowerCase(arg.x.actor) = b
                   \/ ToLowerCase(arg.x.triggering_actor) = b
            \/ Includes(ToLowerCase(arg.x.name), "copilot")
            \/ Includes(ToLowerCase(arg.x.display_title), "copilot")
            \/ Includes(ToLowerCase(arg.x.head_commit_message), "copilot"))

CopilotRunWitness ==
    /\ fn = "isCopilotTriggeredRun"
    /\ arg.x = Run("copilot-bot", "", "Regular CI Build", "Normal PR", "")
    /\ out = <<FALSE>>

\* ------------------------------------------------------------------------
\* Properties of the fetchers

\* C19: an enrichment fetcher always returns a value: when its request
\* raised, for a terminal error or with the retries exhausted, it returns the
\* empty list (getWorkflowRunJobs the empty job list), and when the request
\* returned a list it returns that list.
FetchersDegradeToEmpty ==
    fn \in Fetchers =>
        /\ arg.failed =>
               out[1] = (IF fn = "getWorkflowRunJobs" THEN JObj(<<>>) ELSE JArr(<<>>))
        /\ (~arg.failed /\ arg.response.kind \in {"array", "object"}) =>
               out[1] = arg.response
        /\ fn \in ListFetchers => out[1].kind = "array"

FetchersDegradeWitness ==
    /\ fn = "getPRFiles"
    /\ arg.failed
    /\ arg.error = HttpError(500)
    /\ arg.calls = 4
    /\ arg.sleeps = 3
    /\ out = <<JArr(<<>>)>>

\* the listing is over
ListingOver ==
    /\ listing.fetcher = "getRepositoryPullRequests"
    /\ listing.pc \in {"returned", "raised"}

\* C20: when the first call of the pull-request listing answers 404, the
\* request raises at once, after one call and no sleep, and
\* getRepositoryPullRequests returns the empty list and does not raise.
NotFoundListingIsEmpty ==
    /\ (/\ listing.pc = "fetching" /\ listing.page = 1
        /\ fails = 1 /\ rejection = HttpError(404)) =>
           pc = "thrown" /\ calls = 1 /\ sleeps = 0
    /\ (/\ ListingOver /\ listing.page = 1
        /\ listing.fails = 1 /\ listing.failure = HttpError(404)) =>
           /\ listing.pc = "returned"
           /\ listing.items = <<>>
           /\ listing.calls = 1
           /\ listing.sleeps = 0

NotFoundListingWitness ==
    /\ ListingOver
    /\ listing.pc = "returned"
    /\ listing.page = 1
    /\ listing.failure = HttpError(404)
    /\ listing.calls = 1
    /\ listing.sleeps = 0
    /\ listing.items = <<>>

\* ------------------------------------------------------------------------
\* Properties of the aggregation

\* the PR is one detectDependabotPR reports: a Dependabot author, or a title
\* with one of the dependency-update words
IsDependencyPR(author, title) ==
    \/ ToLowerCase(author) \in {"dependabot", "dependabot[bot]"}
    \/ \E w \in {"bump", "update", "build(deps)"} : Includes(ToLowerCase(title), w)

\* the analysis stands at PR p of the list
AtPullRequest == an.pc = "pr" /\ an.pi \in 1..Len(an.pulls)

\* the records of the weeks
RecordedPRs ==
    UNION {{weeklyData[k].pullRequests[i] : i \in DOMAIN weeklyData[k].pullRequests} :
              k \in DOMAIN weeklyData}

\* C13: a fetched PR detected as a Dependabot PR adds one to
\* totalDependabotPRs and changes nothing else: no week bucket, no other
\* counter, no request and no classification, in the one step that takes the
\* PR from the list, whoever its author, assignees and reviewers are; and no
\* record of a week is the record of such a PR.
DependabotOnlyCounted ==
    /\ [][(AtPullRequest /\ IsDependencyPR(CurPR.author, CurPR.title))
            => /\ totals' = [totals EXCEPT !.totalDependabotPRs = @ + 1]
               /\ weeklyData' = weeklyData
               /\ an' = [an EXCEPT !.pi = @ + 1]
               /\ UNCHANGED <<rvars, dvars, listing>>]_vars
    /\ [](\A rec \in RecordedPRs : ~IsDependencyPR(rec.author.str, rec.title))

\* a PR of the owner titled "Update docs" has been counted as a Dependabot PR
\* and skipped, with nothing fetched for it
DependabotOnlyCountedWitness ==
    /\ an.pc = "pr"
    /\ an.pi = 2
    /\ an.pulls[1].author = Owner
    /\ an.pulls[1].title = "Update docs"
    /\ totals.totalDependabotPRs = 1
    /\ totals.totalPRs = 0
    /\ weeklyData = NoBuckets
    /\ \A n \in 1..7 : served[ReviewsKey(TestRepo, n)] = {}

\* the owner's login is among the logins
OwnerAmong(logins) == \E i \in DOMAIN logins : logins[i] = Owner

\* the reviews the API has answered with list the owner as a reviewer
OwnerReviewed ==
    /\ pc = "returned"
    /\ result.kind = "array"
    /\ \E i \in DOMAIN result.items : result.items[i].login = Owner

\* C14: for a PR that is not a Dependabot PR and whose author and assignees
\* are not the owner, every step up to and including the one that receives
\* reviews without the owner leaves every counter and every week bucket as
\* they are and starts no classification, and that step goes on to the next
\* PR.
UninvolvedSkipped ==
    [][(/\ an.pc \in {"pr", "involved"}
        /\ an.pi \in 1..Len(an.pulls)
        /\ ~IsDependencyPR(CurPR.author, CurPR.title)
        /\ CurPR.author # Owner
        /\ ~OwnerAmong(CurPR.assignees)
        /\ ~OwnerReviewed)
        => /\ weeklyData' = weeklyData
           /\ totals' = totals
           /\ UNCHANGED <<dpc, ndet, category>>
           /\ an'.pc \in {"pr", "involved"}
           /\ (an'.pc = "pr" /\ an.pc = "involved") => an'.pi = an.pi + 1]_vars

\* the PR of octocat, whose reviews came back empty, has been skipped
UninvolvedSkippedWitness ==
    /\ an.pc = "pr"
    /\ an.pi = 2
    /\ an.pulls[1].author = "octocat"
    /\ served[ReviewsKey(TestRepo, an.pulls[1].number)] = {JArr(<<>>)}
    /\ weeklyData = NoBuckets
    /\ totals.totalPRs = 0
    /\ totals.allCollaborators = {}
    /\ ndet = 0

\* assisted = review + agent <= totalPRs
Consistent(total, assisted, review, agent) ==
    assisted = review + agent /\ assisted <= total

\* from one state to the next at most one of the two counts grows, by one
AtMostOneGrows(review, agent, reviewNext, agentNext) ==
    \/ reviewNext = review /\ agentNext \in {agent, agent + 1}
    \/ agentNext = agent /\ reviewNext = review + 1

\* C15: in every week bucket, in the totals and in the final report,
\* copilotAssistedPRs = copilotReviewPRs + copilotAgentPRs <= totalPRs; a
\* step adds one to at most one of the review and agent counts, of the
\* totals and of every bucket; and the step that receives the category
\* 'none' changes no count, the PR being in totalPRs already.
AssistedIsReviewPlusAgent ==
    /\ [](/\ \A k \in DOMAIN weeklyData :
                Consistent(weeklyData[k].totalPRs, weeklyData[k].copilotAssistedPRs,
                           weeklyData[k].copilotReviewPRs,
                           weeklyData[k].copilotAgentPRs)
          /\ Consistent(totals.totalPRs, totals.totalCopilotPRs,
                        totals.totalCopilotReviewPRs, totals.totalCopilotAgentPRs)
          /\ an.report.present =>
                /\ Consistent(an.report.totalPRs, an.report.totalCopilotPRs,
                              an.report.totalCopilotReviewPRs,
                              an.report.totalCopilotAgentPRs)
                /\ \A k \in DOMAIN an.report.weeklyAnalysis :
                      Consistent(an.report.weeklyAnalysis[k].totalPRs,
                                 an.report.weeklyAnalysis[k].copilotAssistedPRs,
                                 an.report.weeklyAnalysis[k].copilotReviewPRs,
                                 an.report.weeklyAnalysis[k].copilotAgentPRs))
    /\ [][an.pc # "idle" =>
            /\ AtMostOneGrows(totals.totalCopilotReviewPRs,
                              totals.totalCopilotAgentPRs,
                              totals'.totalCopilotReviewPRs,
                              totals'.totalCopilotAgentPRs)
            /\ \A k \in DOMAIN weeklyData :
                  AtMostOneGrows(weeklyData[k].copilotReviewPRs,
                                 weeklyData[k].copilotAgentPRs,
                                 weeklyData'[k].copilotReviewPRs,
                                 weeklyData'[k].copilotAgentPRs)
            /\ (an.pc = "detect" /\ dpc = "done" /\ category = "none") =>
                  /\ totals' = totals
                  /\ weeklyData' = weeklyData
                  /\ weeklyData[an.weekKey].totalPRs >= 1
                  /\ totals.totalPRs >= 1]_vars

\* the report of an analysis with a 'review' PR, an 'agent' PR and a 'none'
\* PR
AssistedIsReviewPlusAgentWitness ==
    /\ an.report.present
    /\ an.report.totalCopilotReviewPRs = 1
    /\ an.report.totalCopilotAgentPRs = 1
    /\ an.report.totalCopilotPRs = 2
    /\ an.report.totalPRs = 3

\* ------------------------------------------------------------------------
\* Properties of the repository loop

\* listing the pull requests of the repository has failed, and not with 404
ListingFailedNot404 ==
    /\ an.pc = "pulls"
    /\ listing.fetcher = "getRepositoryPullRequests"
    /\ listing.pc # "fetching"
    /\ listing.failure # NoError
    /\ ~(listing.failure.response /\ listing.failure.status = 404)

\* C21: when listing the pull requests of a repository fails with another
\* error than 404, the analysis does not raise: the step that receives the
\* failure goes on to the next repository with every counter and every week
\* bucket as they were; the analysis raises only while the repositories are
\* discovered or with the TypeError of the organization filter; and past the
\* last repository the report is produced from the counters.
FailedListingIsCaught ==
    /\ [][ListingFailedNot404
            => /\ an'.pc = "repo"
               /\ an'.ri = an.ri + 1
               /\ an'.repositories = an.repositories
               /\ weeklyData' = weeklyData
               /\ totals' = totals]_vars
    /\ [](an.pc = "raised" => an.ri = 0 \/ an.error = TypeError)
    /\ [][(an.pc = "repo" /\ an.ri > Len(an.repositories))
            => /\ an'.pc = "done"
               /\ an'.report.present
               /\ an'.report.totalPRs = totals.totalPRs
               /\ an'.report.totalRepositories = totals.totalRepositories
               /\ DOMAIN an'.report.weeklyAnalysis = DOMAIN weeklyData]_vars

\* the report of an analysis in which listing the pull requests of acme/tool
\* failed with 403 and the repository after it contributed its PRs
FailedListingIsCaughtWitness ==
    /\ an.report.present
    /\ an.error = HttpError(403)
    /\ served[PullsKey("acme/tool", Since, 1)] = {}
    /\ served[PullsKey(TestRepo, Since, 1)] # {}
    /\ an.report.totalPRs >= 1
    /\ an.report.totalRepositories = 1

\* C22: in all-repositories mode a failed page of the repository discovery
\* makes getUserRepositories raise and analyzePullRequests with it: nothing
\* follows, no report is produced, no counter or bucket has changed and no
\* request other than for repositories has been made; and a request for
\* repositories that failed with 500 at every attempt has called the endpoint
\* 4 times and slept 3 times.
DiscoveryFailureIsFatal ==
    /\ [][(/\ listing.fetcher = "getUserRepositories"
           /\ listing.pc = "fetching"
           /\ pc = "thrown") => listing'.pc = "raised"]_vars
    /\ [][(an.pc = "repos" /\ listing.pc = "raised")
            => an'.pc = "raised" /\ ~an'.report.present]_vars
    /\ [][an.pc # "raised"]_vars
    /\ [](an.pc = "repos" \/ (an.pc = "raised" /\ an.error # TypeError)
            => /\ weeklyData = NoBuckets
               /\ totals = NoTotals
               /\ an.ri = 0
               /\ ~an.report.present
               /\ req.who \in {"none", "getUserRepositories"}
               /\ \A k \in AnalysisKeys \ {ReposKey(Owner, 1), ReposKey(Owner, 2)} :
                      served[k] = {})
    /\ [](/\ req.who = "getUserRepositories"
          /\ pc = "thrown"
          /\ thrown = HttpError(500)
          /\ fails = calls
          /\ terminalFails = 0
          => calls = 4 /\ sleeps = 3)

\* the analysis has raised after four 500 answers to the request for the
\* repositories
DiscoveryFailureIsFatalWitness ==
    /\ an.pc = "raised"
    /\ an.error = HttpError(500)
    /\ ~an.report.present

\* the owner and the name of owner/name
OwnerOf(fullName) ==
    IF \E i \in 1..Len(fullName) : SubSeq(fullName, i, i) = "/"
    THEN SubSeq(fullName, 1,
                (CHOOSE i \in 1..Len(fullName) :
                    /\ SubSeq(fullName, i, i) = "/"
                    /\ \A j \in 1..(i - 1) : SubSeq(fullName, j, j) # "/") - 1)
    ELSE ""
NameOf(fullName) ==
    IF OwnerOf(fullName) = "" /\ (fullName = "" \/ SubSeq(fullName, 1, 1) # "/")
    THEN fullName
    ELSE SubSeq(fullName, Len(OwnerOf(fullName)) + 2, Len(fullName))

\* the repository is one to skip: its owner is fully excluded, or has an
\* allow-list that does not name it, or it is archived or disabled
ToSkip(repo, config) ==
    \/ OwnerOf(repo.full_name) \in config.fullySkipped
    \/ /\ OwnerOf(repo.full_name) \in DOMAIN config.partiallySkipped
       /\ NameOf(repo.full_name) \notin config.partiallySkipped[OwnerOf(repo.full_name)]
    \/ repo.archived
    \/ repo.disabled

\* the fetchers that work on one repository
RepoFetchers ==
    {"getRepositoryPullRequests", "getPRReviews", "getPRCommits", "getPRFiles",
     "getRepositoryWorkflowRuns", "getWorkflowRunJobs"}

\* C23: no request for pull requests, reviews, commits, files, workflow runs
\* or jobs is ever made for a repository to skip, and none has been answered;
\* at the head of the loop a repository to skip is passed over with no
\* request, and every other repository has its pull requests requested.
SkippedRepositoriesUntouched ==
    /\ [](\A i \in DOMAIN an.repositories :
             ToSkip(an.repositories[i], an.skippedOrgs)
             => /\ (pc # "idle" /\ req.who \in RepoFetchers)
                    => ~Includes(req.cacheKey,
                                 "_" \o an.repositories[i].full_name \o "_")
                /\ \A k \in AnalysisKeys :
                      Includes(k, "_" \o an.repositories[i].full_name \o "_")
                      => served[k] = {})
    /\ [][(an.pc = "repo" /\ an.ri \in 1..Len(an.repositories))
            => IF ToSkip(CurRepo, an.skippedOrgs)
               THEN /\ an'.pc = "repo"
                    /\ an'.ri = an.ri + 1
                    /\ UNCHANGED rvars
               ELSE /\ an'.pc = "pulls"
                    /\ an'.ri = an.ri
                    /\ req'.who = "getRepositoryPullRequests"
                    /\ req'.cacheKey = PullsKey(CurRepo.full_name, an.since, 1)]_vars

\* the report of an analysis with acme fully excluded although an allow-list
\* names acme/tool: only the owner's repository was analysed
SkippedRepositoriesUntouchedWitness ==
    /\ an.report.present
    /\ "acme" \in an.skippedOrgs.fullySkipped
    /\ "acme" \in DOMAIN an.skippedOrgs.partiallySkipped
    /\ Len(an.repositories) = 3
    /\ an.report.totalRepositories = 1
    /\ served[PullsKey("acme/tool", Since, 1)] = {}
    /\ served[PullsKey(TestRepo, Since, 1)] # {}

\* C28: the loop leaves a repository that is not one to skip only after the
\* workflow-run analysis of that repository has been attempted.
ActionsUsageAlwaysAttempted ==
    [][(/\ an.ri \in 1..Len(an.repositories)
        /\ an'.ri = an.ri + 1
        /\ ~ToSkip(CurRepo, an.skippedOrgs))
        => an.pc \in {"runs", "jobs", "usage"}]_vars

\* ------------------------------------------------------------------------
\* Properties of pagination
\* ------------------------------------------------------------------------
\* the items of page k of the listing the API holds
PageItems(k) == PageBody(arg, k).items

\* the highest page requested so far
RequestedPage ==
    IF listing.pc # "idle" THEN listing.page
    ELSE IF out # <<>> THEN out[1].page ELSE 0

PageKey(fetcher, k) ==
    CASE fetcher = "getUserRepositories" -> ReposKey(Owner, k)
      [] fetcher = "getRepositoryPullRequests" -> PullsKey("o/r", Since, k)
      [] OTHER -> RunsKey("o/r", Since, k)

\* pages are requested one after the other from page 1, and the request in
\* progress is the request for the highest page
ConsecutivePages ==
    /\ [][fn' \in Paginated /\ listing'.pc # "idle" =>
            listing'.page = IF listing.pc = "idle" THEN 1
                            ELSE IF listing'.page = listing.page THEN listing.page
                            ELSE listing.page + 1]_vars
    /\ [](fn \in Paginated /\ listing.pc = "fetching" =>
            /\ pc # "idle"
            /\ req.cacheKey = PageKey(fn, listing.page))

\* C24 as stated: every page before a requested page is a full page, so that
\* no page is requested after an empty or a short page
NoPageAfterShortPage ==
    fn \in Paginated =>
        \A k \in 1..(RequestedPage - 1) : Len(PageItems(k)) = PerPage

\* C24: the three paginated fetchers request consecutive pages and request no
\* page after an empty page; getRepositoryPullRequests requests no page after
\* a page of fewer than 100 items either
NoPageAfterFinalPage ==
    /\ ConsecutivePages
    /\ [](fn \in Paginated =>
            \A k \in 1..(RequestedPage - 1) :
                /\ Len(PageItems(k)) > 0
                /\ fn = "getRepositoryPullRequests" => Len(PageItems(k)) = PerPage)

NoPageAfterFinalPageWitness ==
    /\ fn = "getRepositoryWorkflowRuns"
    /\ out # <<>>
    /\ out[1].page = 2
    /\ Len(PageItems(1)) = PerPage
    /\ Len(PageItems(2)) = 0
    /\ Len(out[1].items) = PerPage

\* every pull request the API lists for the repository
RECURSIVE ItemsUpTo(_)
ItemsUpTo(k) == IF k = 0 THEN <<>> ELSE ItemsUpTo(k - 1) \o PageItems(k)

CreatedInWindow(item) ==
    LET createdAt == DateParse(item.created_at)
    IN  ~createdAt.nan /\ createdAt.n >= Since

\* C25: when no request fails, getRepositoryPullRequests returns every pull
\* request of the repository created at or after since, whatever the order
\* of the listing
AllInWindowReturned ==
    (/\ fn = "getRepositoryPullRequests"
     /\ out # <<>>
     /\ ~out[1].raised
     /\ out[1].fails = 0)
    => out[1].items = SelectSeq(ItemsUpTo(Len(arg.pages)), CreatedInWindow)

\* a page is final for getRepositoryPullRequests when it is empty, short, or
\* holds a pull request created before since
FinalPullsPage(items) ==
    \/ Len(items) < PerPage
    \/ \E i \in 1..Len(items) : ~CreatedInWindow(items[i])

\* C26: every pull request getRepositoryPullRequests returns was created at or
\* after since; no page is requested after the first page that is empty,
\* short or filtered, and after a full page that the filter leaves whole the
\* next page is requested
PullsFilteredAndStopped ==
    /\ [](fn = "getRepositoryPullRequests" =>
            /\ \A i \in 1..Len(listing.items) : CreatedInWindow(listing.items[i])
            /\ out # <<>> =>
                 \A i \in 1..Len(out[1].items) : CreatedInWindow(out[1].items[i])
            /\ \A k \in 1..(RequestedPage - 1) : ~FinalPullsPage(PageItems(k)))
    /\ [][(/\ fn = "getRepositoryPullRequests"
           /\ listing.pc = "fetching"
           /\ pc = "returned"
           /\ listing' # listing)
          => IF FinalPullsPage(Elements(result))
             THEN listing'.pc \in {"returned", "raised"} /\ listing'.page = listing.page
             ELSE /\ listing'.pc = "fetching"
                  /\ listing'.page = listing.page + 1
                  /\ listing'.items = listing.items \o Elements(result)
                  /\ req'.cacheKey = PullsKey("o/r", Since, listing.page + 1)]_vars

PullsFilteredAndStoppedWitness ==
    /\ fn = "getRepositoryPullRequests"
    /\ out # <<>>
    /\ ~out[1].raised
    /\ out[1].page = 2
    /\ Len(PageItems(2)) = 2
    /\ Len(out[1].items) = PerPage + 1

\* the first empty page of the listing
FirstEmptyPage ==
    CHOOSE k \in 1..(Len(arg.pages) + 1) :
        /\ Len(PageItems(k)) = 0
        /\ \A j \in 1..(k - 1) : Len(PageItems(j)) > 0

\* C27: getUserRepositories requests the pages one after the other up to the
\* first empty page and ends; when no page fails it returns the pages before
\* the empty page, concatenated in page order
RepositoriesConcatenated ==
    /\ ConsecutivePages
    /\ [](fn = "getUserRepositories" /\ out # <<>> =>
            IF out[1].raised
            THEN out[1].failure # NoError
            ELSE /\ out[1].page = FirstEmptyPage
                 /\ out[1].items = ItemsUpTo(FirstEmptyPage - 1))
    /\ (fn = "getUserRepositories" ~> out # <<>>)

RepositoriesConcatenatedWitness ==
    /\ fn = "getUserRepositories"
    /\ out # <<>>
    /\ ~out[1].raised
    /\ out[1].page = 3
    /\ Len(out[1].items) = PerPage + 2

\* ------------------------------------------------------------------------
\* Properties of the report
\* ------------------------------------------------------------------------
\* p hundredths is 100 * count / total rounded to two decimals: no other
\* number of hundredths is nearer
RoundedPercentage(p, count, total) ==
    IF total = 0 THEN p = 0
    ELSE /\ 2 * (p * total - 10000 * count) <= total
         /\ 2 * (10000 * count - p * total) <= total
         /\ p \in 0..10000

\* C29: each percentage of a week of the final report is 100 * count /
\* totalPRs rounded to two decimals, 0 when the week has no PR, between 0 and
\* 100, and the same when it is computed again from the counts of that week
PercentagesRounded ==
    fn = "finalWeek" /\ out # <<>> =>
        LET week == out[1]
        IN  /\ week.totalPRs = arg.x.totalPRs
            /\ RoundedPercentage(week.copilotPercentage,
                                 arg.x.copilotAssistedPRs, arg.x.totalPRs)
            /\ RoundedPercentage(week.copilotReviewPercentage,
                                 arg.x.copilotReviewPRs, arg.x.totalPRs)
            /\ RoundedPercentage(week.copilotAgentPercentage,
                                 arg.x.copilotAgentPRs, arg.x.totalPRs)
            /\ FinalWeek(week) = week

PercentagesRoundedWitness ==
    /\ fn = "finalWeek"
    /\ out # <<>>
    /\ out[1].totalPRs = 3
    /\ out[1].copilotAssistedPRs = 2
    /\ out[1].copilotPercentage = 6667
    /\ out[1].copilotReviewPercentage = 3333

\* C30: saveResults with a format other than json and csv raises 'Unsupported
\* output format' before any I/O: no I/O call is made, no directory is
\* created and no file is written
UnsupportedFormatBeforeIO ==
    (/\ fn = "saveResults"
     /\ out # <<>>
     /\ out[1].pc \in {"returned", "raised"}
     /\ ToLowerCase(arg.x.outputFormat) \notin {"json", "csv"})
    => /\ out[1].raised
       /\ out[1].io = <<>>
       /\ out[1].created = {}
       /\ out[1].written = {}

\* ------------------------------------------------------------------------
\* Properties of the rate limit information
\* ------------------------------------------------------------------------
\* C31: every call of getRateLimitInfo sends a request to the endpoint and
\* reports the values of the response to that request
RateLimitInfoIsFresh ==
    \A i \in 1..Len(out) :
        fn = "getRateLimitInfo" /\ ~out[i].info.raised =>
            /\ out[i].calls >= 1
            /\ out[i].response.kind = "object"
            /\ out[i].info.remaining = out[i].response.items[1].remaining

\* ------------------------------------------------------------------------
\* Further properties of the retrying client and of the cache
\* ------------------------------------------------------------------------
\* C32: a request that succeeds, at the first attempt or after retries,
\* resolves to the response object the thunk resolved with
ResolvesToResponse ==
    (pc = "returned" /\ calls >= 1) => result = lastResponse

\* the first commit whose lower-cased message mentions copilot
MentionsCopilot(commit) == Includes(ToLowerCase(commit.message), "copilot")
FirstCopilotCommit(commits) ==
    commits[CHOOSE i \in 1..Len(commits) :
                /\ MentionsCopilot(commits[i])
                /\ \A j \in 1..(i - 1) : ~MentionsCopilot(commits[j])]

\* C33: when the commit stage is reached and a commit mentions copilot, the
\* first such commit decides: agent if its message holds 'co-authored-by:',
\* else review if it holds a review keyword, else agent, whatever the later
\* commits, the title and the body say
FirstCopilotCommitDecides ==
    (/\ dpc = "done"
     /\ fetches = 2
     /\ \E i \in 1..Len(commitsGot) : MentionsCopilot(commitsGot[i]))
    => LET message == ToLowerCase(FirstCopilotCommit(commitsGot).message)
       IN  category =
               IF Includes(message, "co-authored-by:") THEN "agent"
               ELSE IF \E w \in {"review", "feedback", "suggestion", "comment",
                                 "approve"} : Includes(message, w)
               THEN "review"
               ELSE "agent"

FirstCopilotCommitDecidesWitness ==
    /\ dpc = "done"
    /\ fetches = 2
    /\ Len(commitsGot) = 2
    /\ commitsGot[1].message = "Let copilot write the parser"
    /\ commitsGot[2].message = "copilot review"
    /\ pr.body = "Used GitHub Copilot suggestions"
    /\ category = "agent"

\* the value a lookup found is absent or a body a completed set stored
WholeLookup(l) ==
    l.key # "" => l.value = JUndefined \/ l.value \in served[l.key]

\* C34: with two fetches in flight over the cache, a lookup finds nothing or
\* exactly a body that a completed set stored under the key, and the cache
\* holds under each key the body of the last successful fetch of that key
CacheNeverMixes ==
    /\ WholeLookup(lookup)
    /\ WholeLookup(arg[1].lookup)
    /\ \A k \in DOMAIN cache :
          cache[k].present =>
              /\ cache[k].v \in served[k]
              /\ cache[k].v = stored[k].v

\* both fetches of a key missed, both called the network, and the cache
\* holds the body of the one that ended last
CacheNeverMixesWitness ==
    /\ pc = "returned"
    /\ arg[1].pc = "returned"
    /\ req.cacheKey = arg[1].req.cacheKey
    /\ calls = 1
    /\ arg[1].calls = 1
    /\ result # arg[1].result
    /\ cache[req.cacheKey].v \in {result, arg[1].result}
    /\ Cardinality(served[req.cacheKey]) = 2

\* C35: once a request under a key has succeeded, a later request under that
\* key within the TTL returns the body of that success without invoking the
\* thunk, whatever the body
IdempotentReads ==
    [][(/\ pc = "idle"
        /\ pc' # "idle"
        /\ req'.useCache
        /\ req'.cacheKey # ""
        /\ stored[req'.cacheKey].present
        /\ clock - stored[req'.cacheKey].at < TTLMs)
       => /\ pc' = "returned"
          /\ result' = stored[req'.cacheKey].v
          /\ calls' = 0]_vars

\* ------------------------------------------------------------------------
\* Further properties of the pull-request listing and of the report
\* ------------------------------------------------------------------------
\* C36: when a page after the first answers 404, getRepositoryPullRequests
\* returns the pull requests in the window of the pages fetched before it
EarlierPagesKeptOn404 ==
    (/\ fn = "getRepositoryPullRequests"
     /\ out # <<>>
     /\ out[1].failure = HttpError(404)
     /\ out[1].page > 1)
    => /\ ~out[1].raised
       /\ out[1].items = SelectSeq(ItemsUpTo(out[1].page - 1), CreatedInWindow)

\* C37: in the final report every collaborator of a PR record is a
\* collaborator of the week that holds the record
RecordCollaboratorsInWeek ==
    an.report.present =>
        \A k \in DOMAIN an.report.weeklyAnalysis :
            LET week == an.report.weeklyAnalysis[k]
            IN  \A i \in 1..Len(week.pullRequests) :
                    week.pullRequests[i].collaborators \subseteq week.collaborators

\* the sum of totalPRs over the weeks
RECURSIVE SumTotalPRs(_, _)
SumTotalPRs(wd, weeks) ==
    IF weeks = {} THEN 0
    ELSE LET k == CHOOSE x \in weeks : TRUE
         IN  wd[k].totalPRs + SumTotalPRs(wd, weeks \ {k})

\* the stages of the loop body between the count of a PR and its record
Recording == {"collab", "classify", "detect", "commits", "files", "record"}

\* C38: outside the processing of a PR, and in the final report, totalPRs of
\* each week is the number of its PR records and the grand totalPRs is the
\* sum of totalPRs over the weeks, whichever fetches failed
TotalPRsCountRecords ==
    /\ an.pc \notin Recording =>
          /\ \A k \in DOMAIN weeklyData :
                weeklyData[k].totalPRs = Len(weeklyData[k].pullRequests)
          /\ totals.totalPRs = SumTotalPRs(weeklyData, DOMAIN weeklyData)
    /\ an.report.present =>
          /\ \A k \in DOMAIN an.report.weeklyAnalysis :
                an.report.weeklyAnalysis[k].totalPRs =
                    Len(an.report.weeklyAnalysis[k].pullRequests)
          /\ an.report.totalPRs =
                 SumTotalPRs(an.report.weeklyAnalysis,
                             DOMAIN an.report.weeklyAnalysis)

TotalPRsCountRecordsWitness ==
    /\ an.report.present
    /\ an.rejections = 1
    /\ an.report.totalPRs = 2
    /\ \E k \in DOMAIN an.report.weeklyAnalysis :
          Len(an.report.weeklyAnalysis[k].pullRequests) = 2

\* the sum of the minutes of the first n entries of runDetails
RECURSIVE MinutesOf(_, _)
MinutesOf(runDetails, n) ==
    IF n = 0 THEN Num(0)
    ELSE JSAdd(MinutesOf(runDetails, n - 1), runDetails[n].run.minutes)

RECURSIVE ReportRuns(_, _)
ReportRuns(weeks, ks) ==
    IF ks = {} THEN 0
    ELSE LET k == CHOOSE x \in ks : TRUE
         IN  weeks[k].actionsUsage.totalRuns + ReportRuns(weeks, ks \ {k})

RECURSIVE ReportMinutes(_, _)
ReportMinutes(weeks, ks) ==
    IF ks = {} THEN Num(0)
    ELSE LET k == CHOOSE x \in ks : TRUE
         IN  JSAdd(weeks[k].actionsUsage.totalMinutes, ReportMinutes(weeks, ks \ {k}))

\* C39: in each week of the final report totalRuns is the number of entries
\* of runDetails and totalMinutes the sum of their minutes, a week without
\* runs has the all-zero actionsUsage, and the report's totalActionsRuns and
\* totalActionsMinutes are the sums over the weeks
ActionsUsageAddsUp ==
    an.report.present =>
        LET weeks == an.report.weeklyAnalysis
        IN  /\ \A k \in DOMAIN weeks :
                  LET usage == weeks[k].actionsUsage
                  IN  /\ usage.totalRuns = Len(usage.runDetails)
                      /\ usage.totalMinutes = MinutesOf(usage.runDetails,
                                                        Len(usage.runDetails))
                      /\ usage.runDetails = <<>> =>
                            usage = [totalMinutes |-> Num(0), totalRuns |-> 0,
                                     runDetails |-> <<>>]
            /\ an.report.totalActionsRuns = ReportRuns(weeks, DOMAIN weeks)
            /\ an.report.totalActionsMinutes = ReportMinutes(weeks, DOMAIN weeks)

\* two runs of one week, a week of PRs without runs, and the sums
ActionsUsageAddsUpWitness ==
    /\ an.report.present
    /\ an.report.totalActionsRuns = 2
    /\ an.report.totalActionsMinutes = Num(6)
    /\ \E k \in DOMAIN an.report.weeklyAnalysis :
          /\ an.report.weeklyAnalysis[k].actionsUsage.totalRuns = 2
          /\ an.report.weeklyAnalysis[k].totalPRs = 0
    /\ \E k \in DOMAIN an.report.weeklyAnalysis :
          /\ an.report.weeklyAnalysis[k].actionsUsage.totalRuns = 0
          /\ an.report.weeklyAnalysis[k].totalPRs > 0

\* ------------------------------------------------------------------------
\* Further properties of the rate-limit wait

\* C40: whatever the headers of the 429 (a reset in the past or in the
\* future, any retry-after, or none), the wait _handleRateLimit computes is
\* a number of milliseconds between 0 and 300000 inclusive
RateLimitWaitInRange ==
    (fn = "_handleRateLimit" /\ arg.error.response /\ arg.error.status = 429) =>
        /\ Len(out) = 1
        /\ ~out[1].nan
        /\ 0 <= out[1].n
        /\ out[1].n <= RateLimitCapMs

====
